---- MODULE Spec2Model ----
(***************************************************************************)
(* Model of tools/country_tax_db.py: the static tax ruleset TAX_RULES and  *)
(* calculate_tax_liability, the progressive tax calculator.                *)
(*                                                                         *)
(* Number encoding.  Python ints (bracket boundaries, thresholds, the      *)
(* allowance, the income and gains passed in) are TLA+ integers.  Python   *)
(* decimal literals (rates such as 0.22, percentages such as 26.375) are   *)
(* fixed-point integers counting 1/Frac: 0.22 is 22000, 26.375 is 2637500. *)
(* A computed amount is a pair [w, f] meaning w + f/Frac with 0 <= f <     *)
(* Frac, so that sums of the size of a Japanese tax bill stay inside the   *)
(* integers TLC computes with.  Arithmetic on these is exact for every     *)
(* number of the ruleset; float rounding is not modelled.                  *)
(*                                                                         *)
(* Further down: the InvestmentWorkflow of main.py (its six steps and the  *)
(* two entry points) and the profile handling of the two strategy          *)
(* generators of modal_app.py.  Each part has its own specification; the   *)
(* variables of the other parts stay idle in it.                           *)
(***************************************************************************)
EXTENDS Integers, Sequences, FiniteSets, TLC

VARIABLES
    \* tools/country_tax_db.py: the two module-level tables, and the latest
    \* call of one of its functions (fn, its arguments, its return value)
    TAX_RULES, COUNTRY_FINANCIAL_INFO, pc, fn, country, income, capital_gains,
    result,
    \* an earlier call of calculate_tax_liability kept for comparison
    memo,
    \* main.py: one run of InvestmentWorkflow
    wf_pc, wf_entry, wf_input, wf_event, wf_ctx, wf_calls, wf_exc, wf_result,
    \* modal_app.py: one call of a strategy generator
    gs_pc, gs_fn, profile_data, profile_before, gs_locals, gs_calls, gs_result,
    \* modal_app.py: one call of get_dynamic_country_info
    ci_pc, ci_country, ci_profile, ci_out,
    \* ui_gradio_up.py / app_claude.py: one call of get_investment_strategy_async
    ui_pc, ui_app, ui_args, ui_payload, ui_out

taxVars == <<TAX_RULES, COUNTRY_FINANCIAL_INFO, pc, fn, country, income,
             capital_gains, result, memo>>

wfVars == <<wf_pc, wf_entry, wf_input, wf_event, wf_ctx, wf_calls, wf_exc,
            wf_result>>

gsVars == <<gs_pc, gs_fn, profile_data, profile_before, gs_locals, gs_calls,
            gs_result>>

ciVars == <<ci_pc, ci_country, ci_profile, ci_out>>

uiVars == <<ui_pc, ui_app, ui_args, ui_payload, ui_out>>

vars == <<taxVars, wfVars, gsVars, ciVars, uiVars>>

\* ---------------------------------------------------------------- bounds
\* Incomes are drawn from within IncomeDelta of each bracket boundary.
IncomeDelta == 2
\* Gains are drawn from within GainsDelta of 0, of the UK allowance and of 10000.
GainsDelta == 1
\* Each agent call returns one of MaxOutputs distinct values (or raises).
MaxOutputs == 2

\* ------------------------------------------------------------ arithmetic
\* Fractional digits kept for decimals: Frac = 10^5 covers 20.315 / 100.
Frac == 100000

Norm(w, f) == [w |-> w + (f \div Frac), f |-> f % Frac]

Zero == [w |-> 0, f |-> 0]

NumAdd(a, b) == Norm(a.w + b.w, a.f + b.f)

NumLeq(a, b) == a.w < b.w \/ (a.w = b.w /\ a.f <= b.f)

NumLt(a, b) == a.w < b.w \/ (a.w = b.w /\ a.f < b.f)

\* int * decimal: amount a (an integer) times rate r (counting 1/Frac).
\* a and r are split so that no intermediate product leaves 32 bits.
MulRate(a, r) ==
    LET a1 == a \div 1000
        a0 == a % 1000
        r1 == r \div 100
        r0 == r % 100
        t  == a1 * r0
    IN  Norm(a1 * r1 + (t \div 100), (t % 100) * 1000 + a0 * r1 * 100 + a0 * r0)

\* amount * decimal, the amount itself having a fractional part
\* (Canada: capital_gains * inclusion_rate, then * avg_rate / 100).
NumMulRate(a, r) == NumAdd(MulRate(a.w, r), [w |-> 0, f |-> MulRate(a.f, r).w])

\* amount * int (the "* 100" of the effective rate).
NumMulInt(a, k) == Norm(a.w * k, a.f * k)

\* decimal / int, for the "/ 100" and "/ 2" applied to percentages.
DecDiv(x, k) == x \div k

\* Python's "/" on two numbers: a quotient, or ZeroDivisionError.
TrueDiv(n, d) ==
    IF d = 0 THEN [exc |-> "ZeroDivisionError"] ELSE [num |-> n, den |-> d]

\* The int 0 that result["effective_rate"] is initialised to.
RatZero == [num |-> Zero, den |-> 1]

\* ---------------------------------------------------------------- tables
InitialTaxRules ==
    [ USA |->
        [ capital_gains |-> [short_term |-> 3700000, long_term |-> 2000000],
          income_brackets |-> <<0, 10475, 41885, 89405, 174050, 214200, 539900>>,
          rates |-> <<10000, 12000, 22000, 24000, 32000, 35000, 37000>>,
          currency |-> "USD" ],
      India |->
        [ capital_gains |-> [short_term |-> 1500000, long_term |-> 1250000],
          tax_free_threshold |-> 400000,
          slabs |-> << [up_to |-> 800000, rate |-> 5000],
                       [up_to |-> 1200000, rate |-> 10000],
                       [up_to |-> 1600000, rate |-> 15000],
                       [up_to |-> 2000000, rate |-> 20000],
                       [up_to |-> 2400000, rate |-> 25000],
                       [above |-> 2400000, rate |-> 30000] >>,
          currency |-> "INR" ],
      UK |->
        [ capital_gains |->
            [allowance |-> 6000, basic_rate |-> 1000000, higher_rate |-> 2000000],
          income_brackets |-> <<0, 12570, 50270, 125140>>,
          rates |-> <<0, 20000, 40000, 45000>>,
          currency |-> "GBP" ],
      Canada |->
        [ capital_gains |->
            [inclusion_rate |-> 50000, rate_1 |-> 1500000, rate_2 |-> 2700000],
          federal_tax_brackets |-> <<0, 53359, 106717, 165430, 235675>>,
          federal_rates |-> <<15000, 20500, 26000, 29000, 33000>>,
          currency |-> "CAD" ],
      France |->
        [ capital_gains |-> [individual |-> 3000000],
          income_brackets |-> <<0, 11094, 28218, 80297, 170000>>,
          rates |-> <<0, 11000, 30000, 41000, 45000>>,
          currency |-> "EUR" ],
      Germany |->
        [ capital_gains |-> [individual |-> 2637500],
          income_brackets |-> <<0, 11604, 63469, 277825>>,
          rates |-> <<0, 14000, 42000, 45000>>,
          currency |-> "EUR" ],
      Italy |->
        [ capital_gains |-> [individual |-> 2600000],
          income_brackets |-> <<0, 15000, 28000, 50000, 75000, 120000, 150000>>,
          rates |-> <<23000, 25000, 35000, 43000, 45000, 47000, 47000>>,
          currency |-> "EUR" ],
      Japan |->
        [ capital_gains |-> [individual |-> 2031500],
          income_brackets |->
            <<0, 1950000, 3300000, 6950000, 9000000, 18000000, 40000000>>,
          rates |-> <<5000, 10000, 20000, 23000, 33000, 40000, 45000>>,
          currency |-> "JPY" ] ]

InitialCountryFinancialInfo ==
    [
      USA |->
        [ capital_gains_tax |-> "0% (long-term), 15-20% (high earners)",
          income_tax_rate |-> "10-37% (federal)",
          current_interest_rate |-> "5.25-5.50% (Fed rate)",
          tax_accounts |-> "401(k), IRA, Roth IRA, HSA",
          investment_options |-> "US stocks, bonds, REITs, international funds",
          currency |-> "USD" ],
      Canada |->
        [ capital_gains_tax |-> "50% of capital gains taxed as income",
          income_tax_rate |-> "15-33% (federal) + provincial",
          current_interest_rate |-> "5.00% (BoC rate)",
          tax_accounts |-> "RRSP, TFSA, RESP",
          investment_options |-> "Canadian stocks, bonds, GICs, international funds",
          currency |-> "CAD" ],
      UK |->
        [ capital_gains_tax |-> "10-20% (above GBP 6,000 allowance)",
          income_tax_rate |-> "20-45%",
          current_interest_rate |-> "5.25% (BoE rate)",
          tax_accounts |-> "ISA, SIPP, workplace pensions",
          investment_options |-> "UK stocks, bonds, funds, ETFs",
          currency |-> "GBP" ],
      Germany |->
        [ capital_gains_tax |-> "26.375% (withholding tax)",
          income_tax_rate |-> "14-45%",
          current_interest_rate |-> "4.50% (ECB rate)",
          tax_accounts |-> "Private pension schemes, company pensions",
          investment_options |-> "German stocks, EU bonds, funds, ETFs",
          currency |-> "EUR" ],
      France |->
        [ capital_gains_tax |-> "30% flat tax or progressive income tax",
          income_tax_rate |-> "0-45%",
          current_interest_rate |-> "4.50% (ECB rate)",
          tax_accounts |-> "PEA, Assurance Vie, company savings plans",
          investment_options |-> "French stocks, EU bonds, funds, ETFs",
          currency |-> "EUR" ],
      Italy |->
        [ capital_gains_tax |-> "26% on financial assets",
          income_tax_rate |-> "23-43%",
          current_interest_rate |-> "4.50% (ECB rate)",
          tax_accounts |-> "Private pension funds, TFR",
          investment_options |-> "Italian stocks, EU bonds, funds, ETFs",
          currency |-> "EUR" ],
      Japan |->
        [ capital_gains_tax |-> "20.315% (separate taxation)",
          income_tax_rate |-> "5-45%",
          current_interest_rate |-> "-0.10% (BoJ rate)",
          tax_accounts |-> "iDeCo, NISA, company pensions",
          investment_options |-> "Japanese stocks, bonds, funds, international assets",
          currency |-> "JPY" ],
      India |->
        [ capital_gains_tax |-> "12.5% (long-term equity), 15% (short-term)",
          income_tax_rate |-> "5-30% (new regime)",
          current_interest_rate |-> "6.50% (RBI rate)",
          tax_accounts |-> "EPF, PPF, ELSS, NPS, SCSS",
          investment_options |-> "Indian stocks, bonds, mutual funds, gold, FDs",
          currency |-> "INR" ] ]

\* dict.get(key, default)
Get(d, key, default) == IF key \in DOMAIN d THEN d[key] ELSE default

\* The empty dict / empty list.
Empty == << >>

\* Variant: an unknown country falls back to the rules of the default country.
get_tax_rules_default(c) == Get(TAX_RULES, c, TAX_RULES["USA"])

get_tax_rules(c) == Get(TAX_RULES, c, Empty)

\* Variant: the lookup removes the entry it returns (pop for get).
get_tax_rules_effect_pop(c) == [k \in DOMAIN TAX_RULES \ {c} |-> TAX_RULES[k]]

\* TAX_RULES after get_tax_rules(c): dict.get leaves the table as it was.
get_tax_rules_effect(c) == TAX_RULES

\* list(TAX_RULES.keys()), in the table's order of insertion.
KeyOrder ==
    <<"USA", "India", "UK", "Canada", "France", "Germany", "Italy", "Japan">>

get_supported_countries ==
    SelectSeq(KeyOrder, LAMBDA k : k \in DOMAIN TAX_RULES)

get_country_financial_info(c) ==
    IF c \notin DOMAIN COUNTRY_FINANCIAL_INFO
    THEN <<"Limited tax information available for", c>>
    ELSE LET data == COUNTRY_FINANCIAL_INFO[c] IN
         << "Capital Gains Tax", data.capital_gains_tax,
            "Income Tax Rate", data.income_tax_rate,
            "Current Interest Rate", data.current_interest_rate,
            "Tax-Advantaged Accounts", data.tax_accounts,
            "Common Investment Options", data.investment_options,
            "Currency", data.currency >>

\* The table local to get_tax_efficient_strategies.
TaxStrategies ==
    [
      USA |->
        << "Maximize 401(k) contributions (up to $23,000 in 2024)",
           "Use Roth IRA for tax-free growth ($7,000 limit)",
           "Hold investments >1 year for long-term capital gains rates",
           "Consider tax-loss harvesting",
           "Use HSA as retirement account (triple tax advantage)" >>,
      India |->
        << "Maximize ELSS investments (INR 1.5 lakh 80C deduction)",
           "Use PPF for long-term tax-free growth",
           "Consider NPS for additional tax benefits",
           "Hold equity investments >1 year for LTCG benefits",
           "Use SIP for rupee cost averaging" >>,
      UK |->
        << "Use ISA allowance (GBP 20,000 annually, tax-free)",
           "Maximize pension contributions (annual allowance GBP 60,000)",
           "Utilize capital gains allowance (GBP 6,000 annually)",
           "Consider dividend allowance (GBP 1,000 tax-free)",
           "Use bed and breakfast rules for tax-loss harvesting" >>,
      Canada |->
        << "Maximize TFSA contributions first (tax-free growth)",
           "Use RRSP for tax deduction (18% of income, max $31,560)",
           "Hold Canadian eligible dividends for tax credit",
           "Consider capital gains vs dividends tax treatment",
           "Use RESP for children's education (government grants)" >>,
      France |->
        << "Maximize PEA contributions (EUR 150,000 limit, tax-free after 5 years)",
           "Use Assurance Vie for tax-efficient growth",
           "Consider company savings plans (PEE/PERCO)",
           "Hold investments >8 years for reduced tax rates",
           "Use life insurance for estate planning" >>,
      Germany |->
        << "Use Riester pension for tax benefits",
           "Consider company pension schemes (bAV)",
           "Utilize EUR 1,000 annual capital gains exemption",
           "Hold investments in tax-efficient funds",
           "Consider real estate investment (no capital gains after 10 years)" >>,
      Italy |->
        << "Use PIR (Individual Savings Plans) for tax benefits",
           "Consider pension funds for tax deductions",
           "Maximize TFR (employee severance) investments",
           "Hold government bonds for favorable tax treatment",
           "Use life insurance for tax-efficient savings" >>,
      Japan |->
        << "Maximize iDeCo contributions (varies by employment status)",
           "Use NISA for tax-free investment growth",
           "Consider company pension schemes",
           "Hold investments for long-term capital gains",
           "Use life insurance for tax-efficient savings" >> ]

get_tax_efficient_strategies(c) ==
    Get(TaxStrategies, c,
        <<"Consult local tax advisor for country-specific strategies">>)

\* ------------------------------------------------- India: the slab system
\* slab_limit = slab["up_to"] - tax_free_threshold
SlabLimit(slab, threshold) == slab.up_to - threshold

\* The for-loop over the slabs, from slab i on; yields the income tax.
RECURSIVE IndiaSlabLoop(_, _, _, _, _)
IndiaSlabLoop(slabs, threshold, i, income_tax, taxable_income) ==
    IF i > Len(slabs) THEN income_tax
    ELSE LET slab == slabs[i] IN
         IF "up_to" \in DOMAIN slab
         THEN LET slab_limit == SlabLimit(slab, threshold) IN
              IF taxable_income > slab_limit
              THEN IndiaSlabLoop(slabs, threshold, i + 1,
                                 NumAdd(income_tax, MulRate(slab_limit, slab.rate)),
                                 taxable_income - slab_limit)
              ELSE NumAdd(income_tax, MulRate(taxable_income, slab.rate))
         ELSE IF "above" \in DOMAIN slab /\ taxable_income > 0
              THEN NumAdd(income_tax, MulRate(taxable_income, slab.rate))
              ELSE IndiaSlabLoop(slabs, threshold, i + 1, income_tax, taxable_income)

\* Variant: the 'income <= tax_free_threshold' test is missing.
IndiaIncomeTax_no_guard(tax_rules, inc) ==
    LET threshold == Get(tax_rules, "tax_free_threshold", 0) IN
    IndiaSlabLoop(Get(tax_rules, "slabs", Empty), threshold, 1, Zero,
                  inc - threshold)

\* Variant: the threshold is looked up under a key the rules do not have,
\* so the default 0 is used.
IndiaIncomeTax_wrong_key(tax_rules, inc) ==
    LET threshold == Get(tax_rules, "threshold", 0) IN
    IF inc <= threshold THEN Zero
    ELSE IndiaSlabLoop(Get(tax_rules, "slabs", Empty), threshold, 1, Zero,
                       inc - threshold)

IndiaIncomeTax(tax_rules, inc) ==
    LET threshold == Get(tax_rules, "tax_free_threshold", 0) IN
    IF inc <= threshold THEN Zero
    ELSE IndiaSlabLoop(Get(tax_rules, "slabs", Empty), threshold, 1, Zero,
                       inc - threshold)

\* ------------------------------------- other countries: the bracket system
\* The two lists the bracket branch reads from the country's rules.
ReadBrackets(tax_rules) == Get(tax_rules, "income_brackets", Empty)

ReadRates(tax_rules) == Get(tax_rules, "rates", Empty)

\* Variant: '=' written for '+=', dropping the tax of the lower brackets.
LastBracketTax_assign(income_tax, remaining_income, rate) ==
    MulRate(remaining_income, rate)

\* The else-branch of the loop body: the income ends inside bracket i.
LastBracketTax(income_tax, remaining_income, rate) ==
    NumAdd(income_tax, MulRate(remaining_income, rate))

\* The for-loop over range(len(brackets) - 1), from bracket i on; yields the
\* income tax so far and the income not yet taxed.
RECURSIVE BracketLoop(_, _, _, _, _)
BracketLoop(brackets, rates, i, income_tax, remaining_income) ==
    IF i > Len(brackets) - 1
    THEN [income_tax |-> income_tax, remaining_income |-> remaining_income]
    ELSE LET bracket_size == brackets[i + 1] - brackets[i] IN
         IF remaining_income > bracket_size
         THEN BracketLoop(brackets, rates, i + 1,
                          NumAdd(income_tax, MulRate(bracket_size, rates[i])),
                          remaining_income - bracket_size)
         ELSE [income_tax |-> LastBracketTax(income_tax, remaining_income, rates[i]),
               remaining_income |-> 0]

\* Variant: the income above the last boundary is left untaxed.
TopBracketTax_untaxed(rates, after) == after.income_tax

\* The income above the last boundary, taxed at rates[-1].
TopBracketTax(rates, after) ==
    IF after.remaining_income > 0 /\ Len(rates) > 0
    THEN NumAdd(after.income_tax, MulRate(after.remaining_income, rates[Len(rates)]))
    ELSE after.income_tax

BracketIncomeTax(tax_rules, inc) ==
    LET brackets == ReadBrackets(tax_rules)
        rates == ReadRates(tax_rules)
    IN  IF Len(brackets) = Len(rates)
        THEN TopBracketTax(rates, BracketLoop(brackets, rates, 1, Zero, inc))
        ELSE Zero

IncomeTax(c, tax_rules, inc) ==
    IF c = "India" THEN IndiaIncomeTax(tax_rules, inc)
    ELSE BracketIncomeTax(tax_rules, inc)

\* ------------------------------------------------------ capital gains tax
Max(a, b) == IF a >= b THEN a ELSE b

\* Variant: the allowance is not deducted.
UKGainsTax_no_allowance(cg_rules, gains) ==
    MulRate(gains, DecDiv(Get(cg_rules, "basic_rate", 0), 100))

UKGainsTax(cg_rules, gains) ==
    LET allowance == Get(cg_rules, "allowance", 0)
        taxable_gains == Max(0, gains - allowance)
    IN  MulRate(taxable_gains, DecDiv(Get(cg_rules, "basic_rate", 0), 100))

CanadaGainsTax(cg_rules, gains) ==
    LET inclusion_rate == Get(cg_rules, "inclusion_rate", 50000)
        taxable_gains == MulRate(gains, inclusion_rate)
        avg_rate == DecDiv(Get(cg_rules, "rate_1", 1500000)
                           + Get(cg_rules, "rate_2", 2700000), 2)
    IN  NumMulRate(taxable_gains, DecDiv(avg_rate, 100))

\* Variant: the percentage is used as a rate without the '/ 100'.
FlatGainsTax_no_div(cg_rules, key, gains) == MulRate(gains, cg_rules[key])

FlatGainsTax(cg_rules, key, gains) == MulRate(gains, DecDiv(cg_rules[key], 100))

CapitalGainsTax(c, tax_rules, gains) ==
    LET cg_rules == Get(tax_rules, "capital_gains", Empty) IN
    IF gains > 0
    THEN CASE c = "UK" -> UKGainsTax(cg_rules, gains)
           [] c # "UK" /\ c = "Canada" -> CanadaGainsTax(cg_rules, gains)
           [] c \notin {"UK", "Canada"} /\ "long_term" \in DOMAIN cg_rules ->
                FlatGainsTax(cg_rules, "long_term", gains)
           [] c \notin {"UK", "Canada"} /\ "long_term" \notin DOMAIN cg_rules
              /\ "individual" \in DOMAIN cg_rules ->
                FlatGainsTax(cg_rules, "individual", gains)
           [] c \notin {"UK", "Canada"} /\ "long_term" \notin DOMAIN cg_rules
              /\ "individual" \notin DOMAIN cg_rules
              /\ "short_term" \in DOMAIN cg_rules ->
                FlatGainsTax(cg_rules, "short_term", gains)
           [] OTHER -> Zero
    ELSE Zero

\* ------------------------------------------------------------------ totals
\* Variant: the capital-gains tax is left out of the total.
TotalTax_income_only(income_tax, capital_gains_tax) == income_tax

TotalTax(income_tax, capital_gains_tax) == NumAdd(income_tax, capital_gains_tax)

\* Variant: the quotient is not scaled to a percentage.
EffectiveRate_unscaled(total_tax, total_income) ==
    IF total_income > 0 THEN TrueDiv(total_tax, total_income) ELSE RatZero

\* Variant: the division is not guarded by total_income > 0.
EffectiveRate_unguarded(total_tax, total_income) ==
    LET q == TrueDiv(total_tax, total_income) IN
    IF "exc" \in DOMAIN q THEN q
    ELSE [num |-> NumMulInt(q.num, 100), den |-> q.den]

\* (total_tax / total_income * 100) if total_income > 0 else 0
EffectiveRate(total_tax, total_income) ==
    IF total_income > 0
    THEN LET q == TrueDiv(total_tax, total_income) IN
         IF "exc" \in DOMAIN q THEN q
         ELSE [num |-> NumMulInt(q.num, 100), den |-> q.den]
    ELSE RatZero

UnsupportedResult(c) == [error |-> <<"Tax rules not available for", c>>]

\* Variant: the gains are taxed as income too.
calculate_tax_liability_joint(c, inc, gains) ==
    LET tax_rules == get_tax_rules(c) IN
    IF DOMAIN tax_rules = {} THEN UnsupportedResult(c)
    ELSE LET income_tax == IncomeTax(c, tax_rules, inc + gains)
             capital_gains_tax == CapitalGainsTax(c, tax_rules, gains)
             total_tax == TotalTax(income_tax, capital_gains_tax)
             rate == EffectiveRate(total_tax, inc + gains)
             computed == [ country |-> c, income |-> inc, capital_gains |-> gains,
                           income_tax |-> income_tax,
                           capital_gains_tax |-> capital_gains_tax,
                           total_tax |-> total_tax,
                           effective_rate |-> RatZero ]
         IN  IF "exc" \in DOMAIN rate
             THEN [ country |-> c, income |-> inc, capital_gains |-> gains,
                    income_tax |-> income_tax,
                    capital_gains_tax |-> capital_gains_tax,
                    total_tax |-> total_tax,
                    effective_rate |-> RatZero,
                    error |-> <<"Calculation error", rate.exc>> ]
             ELSE [computed EXCEPT !.effective_rate = rate]

calculate_tax_liability(c, inc, gains) ==
    LET tax_rules == get_tax_rules(c) IN
    IF DOMAIN tax_rules = {} THEN UnsupportedResult(c)
    ELSE LET income_tax == IncomeTax(c, tax_rules, inc)
             capital_gains_tax == CapitalGainsTax(c, tax_rules, gains)
             total_tax == TotalTax(income_tax, capital_gains_tax)
             rate == EffectiveRate(total_tax, inc + gains)
             computed == [ country |-> c, income |-> inc, capital_gains |-> gains,
                           income_tax |-> income_tax,
                           capital_gains_tax |-> capital_gains_tax,
                           total_tax |-> total_tax,
                           effective_rate |-> RatZero ]
         IN  IF "exc" \in DOMAIN rate
             THEN [ country |-> c, income |-> inc, capital_gains |-> gains,
                    income_tax |-> income_tax,
                    capital_gains_tax |-> capital_gains_tax,
                    total_tax |-> total_tax,
                    effective_rate |-> RatZero,
                    error |-> <<"Calculation error", rate.exc>> ]
             ELSE [computed EXCEPT !.effective_rate = rate]

\* ------------------------------------------------------------------ inputs
SeqRange(s) == {s[i] : i \in DOMAIN s}

\* The income boundaries a country's rules name, whichever key holds them.
Boundaries(rules) ==
    SeqRange(Get(rules, "income_brackets", Empty))
    \cup SeqRange(Get(rules, "federal_tax_brackets", Empty))
    \cup (IF "tax_free_threshold" \in DOMAIN rules
          THEN {rules.tax_free_threshold} ELSE {})
    \cup {Get(s, "up_to", Get(s, "above", 0)) : s \in SeqRange(Get(rules, "slabs", Empty))}

Around(S, d) == {p + k : p \in S, k \in (0 - d)..d}

UnsupportedCountries == {"Mars", "usa"}

Countries == DOMAIN InitialTaxRules \cup UnsupportedCountries

Incomes(c) ==
    IF c \in DOMAIN InitialTaxRules
    THEN Around({0} \cup Boundaries(InitialTaxRules[c]), IncomeDelta)
    ELSE Around({0, 50000}, IncomeDelta)

Gains == Around({0, 6000, 10000}, GainsDelta)

\* ----------------------------------------------------------- state machine
\* No earlier call is kept.
NoCall == [fn |-> "none"]

\* The tables as the module defines them on import.
TablesLoaded ==
    /\ TAX_RULES = InitialTaxRules
    /\ COUNTRY_FINANCIAL_INFO = InitialCountryFinancialInfo

\* No workflow run has been started.
WfIdle ==
    /\ wf_pc = "idle"
    /\ wf_entry = "none"
    /\ wf_input = Empty
    /\ wf_event = Empty
    /\ wf_ctx = Empty
    /\ wf_calls = Empty
    /\ wf_exc = <<"none">>
    /\ wf_result = Empty

\* No strategy generator has been called.
GsIdle ==
    /\ gs_pc = "idle"
    /\ gs_fn = "none"
    /\ profile_data = Empty
    /\ profile_before = Empty
    /\ gs_locals = Empty
    /\ gs_calls = Empty
    /\ gs_result = Empty

\* get_dynamic_country_info has not been called.
CiIdle ==
    /\ ci_pc = "idle"
    /\ ci_country = ""
    /\ ci_profile = Empty
    /\ ci_out = Empty

\* get_investment_strategy_async has not been called.
UiIdle ==
    /\ ui_pc = "idle"
    /\ ui_app = "none"
    /\ ui_args = Empty
    /\ ui_payload = Empty
    /\ ui_out = Empty

Init ==
    /\ TablesLoaded
    /\ pc = "call"
    /\ fn = "calculate_tax_liability"
    /\ country \in Countries
    /\ income \in Incomes(country)
    /\ capital_gains \in Gains
    /\ result = Empty
    /\ memo = NoCall
    /\ WfIdle
    /\ GsIdle
    /\ CiIdle
    /\ UiIdle

Call ==
    /\ pc = "call"
    /\ result' = calculate_tax_liability(country, income, capital_gains)
    /\ TAX_RULES' = get_tax_rules_effect(country)
    /\ pc' = "returned"
    /\ UNCHANGED <<COUNTRY_FINANCIAL_INFO, fn, country, income, capital_gains, memo>>
    /\ UNCHANGED <<wfVars, gsVars, ciVars, uiVars>>

Next == Call

Spec == Init /\ [][Next]_vars

Returned == pc = "returned" /\ fn = "calculate_tax_liability"

\* ------------------------------------------- any sequence of library calls
\* The arguments the calls of a sequence are drawn from.
SeqCountries == {"USA", "UK", "India", "Mars"}

SeqIncomes == {0, 50000}

SeqGains == {0, 10000}

InitCalls ==
    /\ TablesLoaded
    /\ pc = "call"
    /\ fn = "none"
    /\ country = "USA"
    /\ income = 0
    /\ capital_gains = 0
    /\ result = Empty
    /\ memo = NoCall
    /\ WfIdle
    /\ GsIdle
    /\ CiIdle
    /\ UiIdle

\* The call kept, with f added to the functions called since it was kept.
Noted(m, f) == IF m = NoCall THEN m ELSE [m EXCEPT !.since = @ \cup {f}]

\* One call of calculate_tax_liability; the caller may keep what it
\* returned, to compare a later call with.
CallCalculate(c, inc, gains, keep) ==
    /\ fn' = "calculate_tax_liability"
    /\ country' = c /\ income' = inc /\ capital_gains' = gains
    /\ result' = calculate_tax_liability(c, inc, gains)
    /\ TAX_RULES' = get_tax_rules_effect(c)
    /\ pc' = "returned"
    /\ memo' = IF keep /\ memo = NoCall
               THEN [fn |-> "calculate_tax_liability", country |-> c,
                     income |-> inc, capital_gains |-> gains,
                     result |-> calculate_tax_liability(c, inc, gains),
                     since |-> {}]
               ELSE Noted(memo, "calculate_tax_liability")
    /\ UNCHANGED <<COUNTRY_FINANCIAL_INFO, wfVars, gsVars, ciVars, uiVars>>

CallGetTaxRules(c) ==
    /\ fn' = "get_tax_rules"
    /\ memo' = Noted(memo, "get_tax_rules")
    /\ country' = c
    /\ result' = get_tax_rules(c)
    /\ TAX_RULES' = get_tax_rules_effect(c)
    /\ pc' = "returned"
    /\ UNCHANGED <<COUNTRY_FINANCIAL_INFO, income, capital_gains, wfVars, gsVars, ciVars, uiVars>>

CallGetSupportedCountries ==
    /\ fn' = "get_supported_countries"
    /\ memo' = Noted(memo, "get_supported_countries")
    /\ result' = get_supported_countries
    /\ pc' = "returned"
    /\ UNCHANGED <<TAX_RULES, COUNTRY_FINANCIAL_INFO, country, income,
                   capital_gains, wfVars, gsVars, ciVars, uiVars>>

CallGetCountryFinancialInfo(c) ==
    /\ fn' = "get_country_financial_info"
    /\ memo' = Noted(memo, "get_country_financial_info")
    /\ country' = c
    /\ result' = get_country_financial_info(c)
    /\ pc' = "returned"
    /\ UNCHANGED <<TAX_RULES, COUNTRY_FINANCIAL_INFO, income, capital_gains,
                   wfVars, gsVars, ciVars, uiVars>>

CallGetTaxEfficientStrategies(c) ==
    /\ fn' = "get_tax_efficient_strategies"
    /\ memo' = Noted(memo, "get_tax_efficient_strategies")
    /\ country' = c
    /\ result' = get_tax_efficient_strategies(c)
    /\ pc' = "returned"
    /\ UNCHANGED <<TAX_RULES, COUNTRY_FINANCIAL_INFO, income, capital_gains,
                   wfVars, gsVars, ciVars, uiVars>>

NextCalls ==
    \/ \E c \in SeqCountries, inc \in SeqIncomes, gains \in SeqGains,
          keep \in BOOLEAN : CallCalculate(c, inc, gains, keep)
    \/ \E c \in SeqCountries : CallGetTaxRules(c)
    \/ CallGetSupportedCountries
    \/ \E c \in SeqCountries : CallGetCountryFinancialInfo(c)
    \/ \E c \in SeqCountries : CallGetTaxEfficientStrategies(c)

SpecCalls == InitCalls /\ [][NextCalls]_vars

\* ===================================================================
\* main.py: InvestmentWorkflow
\* ===================================================================
\* The agents, in the order __init__ creates them.
AgentOrder ==
    << "input_analyzer", "demographic_profiler", "net_worth_checker",
       "literacy_detector", "economic_analyst", "strategy_advisor" >>

\* The keys format_strategy looks for in a structured response.
SectionKeys ==
    << "recommended_allocation", "recommended_instruments",
       "tax_optimization_tips", "risk_management_notes" >>

\* What the caller passes in: a text, or a structured profile.
UserInputs == {[by |-> "user", v |-> k] : k \in 1..MaxOutputs}

\* What an agent's arun may return.  The five profile agents return some
\* profile; the strategy advisor returns an object with a 'response' (a
\* string, padded or not; a dict with some of the section keys, well-formed
\* or not; something else) or an object without one.
AgentReturns(agent) ==
    IF agent # "strategy_advisor"
    THEN {[by |-> agent, v |-> k] : k \in 1..MaxOutputs}
    ELSE {[response |-> [type |-> "str", text |-> k, padded |-> b]] :
             k \in 1..MaxOutputs, b \in BOOLEAN}
         \cup {[response |-> [type |-> "dict", keys |-> K, wellformed |-> TRUE]] :
             K \in {{}, {SectionKeys[1]}, SeqRange(SectionKeys)}}
         \cup {[response |-> [type |-> "dict", keys |-> SeqRange(SectionKeys),
                              wellformed |-> FALSE]]}
         \cup {[response |-> [type |-> "other", repr |-> k]] : k \in 1..MaxOutputs}
         \cup {[repr |-> k] : k \in 1..MaxOutputs}

\* format_strategy: the Markdown for a structured response, the stripped
\* text of a string, or the fallback line; a dict whose sections are not of
\* the expected type makes join/items raise.  Yields [md |-> the string
\* returned] or [exc |-> the exception raised].
format_strategy(result_dict) ==
    LET strategy == Get(result_dict, "response", [type |-> "str", text |-> 0,
                                                  padded |-> FALSE]) IN
    CASE strategy.type = "dict" ->
            IF ~strategy.wellformed THEN [exc |-> "TypeError"]
            ELSE IF strategy.keys = {} THEN [md |-> <<"No strategy generated.">>]
            ELSE [md |-> <<"sections",
                           SelectSeq(SectionKeys, LAMBDA k : k \in strategy.keys)>>]
      [] strategy.type = "str" -> [md |-> <<"text", strategy.text>>]
      [] OTHER -> [md |-> <<"Strategy not properly formatted", strategy.repr>>]

\* The two branches of generate_strategy around hasattr(strategy, 'response').
FormattedStrategy(strategy) ==
    IF "response" \in DOMAIN strategy
    THEN format_strategy([response |-> strategy.response])
    ELSE format_strategy([response |-> [type |-> "str", text |-> strategy.repr,
                                        padded |-> FALSE]])

\* ctx.set(key, value)
CtxSet(ctx, key, value) ==
    [k \in DOMAIN ctx \cup {key} |-> IF k = key THEN value ELSE ctx[k]]

\* An agent call, as the log of the run keeps it.
Called(agent, input, outcome, output) ==
    [agent |-> agent, input |-> input, outcome |-> outcome, output |-> output]

\* The argument each step hands to its agent: the payload of its event.
AnalyzeInputArg(ev, ctx) == ev.user_input

DemographicsArg(ev, ctx) == ev.profile

\* Variant: the step reads the first profile back from the context.
NetWorthArg_from_ctx(ev, ctx) == Get(ctx, "profile", ev.enriched_profile)

NetWorthArg(ev, ctx) == ev.enriched_profile

LiteracyArg(ev, ctx) == ev.networth_profile

EconomicArg(ev, ctx) == ev.literacy_profile

StrategyArg(ev, ctx) == ev.econ_profile

\* Variant: the exception is swallowed and the event stays pending, so the
\* step runs again.
StepRaises_retry(agent, input) ==
    /\ wf_calls' = Append(wf_calls, Called(agent, input, "raised", Empty))
    /\ UNCHANGED <<wf_pc, wf_entry, wf_input, wf_event, wf_ctx, wf_exc, wf_result>>

\* Variant: the exception is swallowed inside the step, which returns no
\* event: nothing is pending and nothing was raised.
StepRaises_swallowed(agent, input) ==
    /\ wf_calls' = Append(wf_calls, Called(agent, input, "raised", Empty))
    /\ wf_event' = Empty
    /\ UNCHANGED <<wf_pc, wf_entry, wf_input, wf_ctx, wf_exc, wf_result>>

\* The awaited arun raises: the exception leaves the step and the run.
StepRaises(agent, input) ==
    /\ wf_calls' = Append(wf_calls, Called(agent, input, "raised", Empty))
    /\ wf_exc' = <<"raised by", agent>>
    /\ wf_event' = Empty
    /\ wf_pc' = "raised"
    /\ UNCHANGED <<wf_entry, wf_input, wf_ctx, wf_result>>

\* The awaited arun returns: the step stores the value in the context and
\* returns the next event carrying it.
StepReturns(agent, input, out, key, evtype, field) ==
    /\ wf_calls' = Append(wf_calls, Called(agent, input, "returned", out))
    /\ wf_ctx' = CtxSet(wf_ctx, key, out)
    /\ wf_event' = [f \in {"type", field} |-> IF f = "type" THEN evtype ELSE out]
    /\ UNCHANGED <<wf_pc, wf_entry, wf_input, wf_exc, wf_result>>

\* The event is pending and is of the type the step is annotated with.
Accepts(evtype) ==
    /\ wf_pc = "running"
    /\ wf_event # Empty
    /\ wf_event.type = evtype

analyze_input ==
    /\ Accepts("AnalyzeInputEvent")
    /\ LET arg == AnalyzeInputArg(wf_event, wf_ctx) IN
       \/ \E out \in AgentReturns("input_analyzer") :
            StepReturns("input_analyzer", arg, out, "profile",
                        "ProfileDemographicsEvent", "profile")
       \/ StepRaises("input_analyzer", arg)
    /\ UNCHANGED <<taxVars, gsVars, ciVars, uiVars>>

profile_demographics ==
    /\ Accepts("ProfileDemographicsEvent")
    /\ LET arg == DemographicsArg(wf_event, wf_ctx) IN
       \/ \E out \in AgentReturns("demographic_profiler") :
            StepReturns("demographic_profiler", arg, out, "enriched_profile",
                        "EnrichedProfileEvent", "enriched_profile")
       \/ StepRaises("demographic_profiler", arg)
    /\ UNCHANGED <<taxVars, gsVars, ciVars, uiVars>>

check_net_worth ==
    /\ Accepts("EnrichedProfileEvent")
    /\ LET arg == NetWorthArg(wf_event, wf_ctx) IN
       \/ \E out \in AgentReturns("net_worth_checker") :
            StepReturns("net_worth_checker", arg, out, "networth_profile",
                        "NetWorthEvent", "networth_profile")
       \/ StepRaises("net_worth_checker", arg)
    /\ UNCHANGED <<taxVars, gsVars, ciVars, uiVars>>

detect_literacy ==
    /\ Accepts("NetWorthEvent")
    /\ LET arg == LiteracyArg(wf_event, wf_ctx) IN
       \/ \E out \in AgentReturns("literacy_detector") :
            StepReturns("literacy_detector", arg, out, "literacy_profile",
                        "LiteracyEvent", "literacy_profile")
       \/ StepRaises("literacy_detector", arg)
    /\ UNCHANGED <<taxVars, gsVars, ciVars, uiVars>>

fetch_economic_data ==
    /\ Accepts("LiteracyEvent")
    /\ LET arg == EconomicArg(wf_event, wf_ctx) IN
       \/ \E out \in AgentReturns("economic_analyst") :
            StepReturns("economic_analyst", arg, out, "econ_profile",
                        "GenerateStrategyEvent", "econ_profile")
       \/ StepRaises("economic_analyst", arg)
    /\ UNCHANGED <<taxVars, gsVars, ciVars, uiVars>>

\* The last step: the advisor's answer is formatted and returned in a
\* StopEvent; format_strategy raising leaves the step like any exception.
generate_strategy ==
    /\ Accepts("GenerateStrategyEvent")
    /\ LET arg == StrategyArg(wf_event, wf_ctx) IN
       \/ \E out \in AgentReturns("strategy_advisor") :
            LET formatted == FormattedStrategy(out) IN
            /\ wf_calls' = Append(wf_calls,
                                  Called("strategy_advisor", arg, "returned", out))
            /\ IF "exc" \in DOMAIN formatted
               THEN /\ wf_exc' = <<"raised by", "format_strategy">>
                    /\ wf_event' = Empty
                    /\ wf_pc' = "raised"
               ELSE /\ wf_event' = [type |-> "StopEvent",
                                    result |-> [strategy |-> formatted.md]]
                    /\ UNCHANGED <<wf_pc, wf_exc>>
            /\ UNCHANGED <<wf_entry, wf_input, wf_ctx, wf_result>>
       \/ StepRaises("strategy_advisor", arg)
    /\ UNCHANGED <<taxVars, gsVars, ciVars, uiVars>>

\* Variant: the run is started at the text-analysis step.
ProfileStartEvent_analyze(profile) ==
    [type |-> "AnalyzeInputEvent", user_input |-> profile]

\* The event run_from_profile starts the run with.
ProfileStartEvent(profile) ==
    [type |-> "ProfileDemographicsEvent", profile |-> profile]

\* The event run_from_text starts the run with.
TextStartEvent(user_input) ==
    [type |-> "AnalyzeInputEvent", user_input |-> user_input]

run_from_profile(profile) ==
    /\ wf_pc = "idle"
    /\ wf_pc' = "running"
    /\ wf_entry' = "run_from_profile"
    /\ wf_input' = profile
    /\ wf_event' = ProfileStartEvent(profile)
    /\ UNCHANGED <<wf_ctx, wf_calls, wf_exc, wf_result, taxVars, gsVars, ciVars, uiVars>>

run_from_text(user_input) ==
    /\ wf_pc = "idle"
    /\ wf_pc' = "running"
    /\ wf_entry' = "run_from_text"
    /\ wf_input' = user_input
    /\ wf_event' = TextStartEvent(user_input)
    /\ UNCHANGED <<wf_ctx, wf_calls, wf_exc, wf_result, taxVars, gsVars, ciVars, uiVars>>

\* 'result = await super().run(...); return result': the StopEvent's result.
run_returns ==
    /\ wf_pc = "running"
    /\ wf_event # Empty
    /\ wf_event.type = "StopEvent"
    /\ wf_result' = wf_event.result
    /\ wf_event' = Empty
    /\ wf_pc' = "returned"
    /\ UNCHANGED <<wf_entry, wf_input, wf_ctx, wf_calls, wf_exc, taxVars, gsVars, ciVars, uiVars>>

\* 'await super().run(...)' raises before any step has run: Workflow.run is
\* library code outside the repository, handed the start event as its one
\* positional argument, and whether it accepts it is not for this code to say.
run_rejects ==
    /\ wf_pc = "running"
    /\ wf_calls = << >>
    /\ wf_event # Empty
    /\ wf_event.type \in {"AnalyzeInputEvent", "ProfileDemographicsEvent"}
    /\ wf_exc' = <<"raised by", "Workflow.run">>
    /\ wf_event' = Empty
    /\ wf_pc' = "raised"
    /\ UNCHANGED <<wf_entry, wf_input, wf_ctx, wf_calls, wf_result, taxVars, gsVars, ciVars, uiVars>>

\* 'except Exception as e': the error dict is returned instead.
run_except ==
    /\ wf_pc = "raised"
    /\ wf_result' = [strategy |-> <<"Error in workflow", wf_exc>>]
    /\ wf_exc' = <<"none">>
    /\ wf_pc' = "returned"
    /\ UNCHANGED <<wf_entry, wf_input, wf_event, wf_ctx, wf_calls, taxVars, gsVars, ciVars, uiVars>>

InitWorkflow ==
    /\ TablesLoaded
    /\ pc = "call"
    /\ fn = "none"
    /\ country = "USA"
    /\ income = 0
    /\ capital_gains = 0
    /\ result = Empty
    /\ memo = NoCall
    /\ WfIdle
    /\ GsIdle
    /\ CiIdle
    /\ UiIdle

NextWorkflow ==
    \/ \E u \in UserInputs : run_from_text(u)
    \/ \E p \in UserInputs : run_from_profile(p)
    \/ analyze_input
    \/ profile_demographics
    \/ check_net_worth
    \/ detect_literacy
    \/ fetch_economic_data
    \/ generate_strategy
    \/ run_returns
    \/ run_rejects
    \/ run_except

SpecWorkflow == InitWorkflow /\ [][NextWorkflow]_vars

\* What a started run does next: a step whose event is pending runs and its
\* awaited agent call returns or raises; the awaited run() hands back the
\* StopEvent's result; the except clause returns.
RunProgress ==
    \/ analyze_input
    \/ profile_demographics
    \/ check_net_worth
    \/ detect_literacy
    \/ fetch_economic_data
    \/ generate_strategy
    \/ run_returns
    \/ run_except

\* The run with every awaited call completing: the event loop resumes a
\* coroutine whose awaitable is done, and every agent call is assumed to
\* return or raise.
SpecWorkflowLive == SpecWorkflow /\ WF_vars(RunProgress)

\* ===================================================================
\* modal_app.py: generate_investment_strategy_direct and
\* generate_investment_strategy
\* ===================================================================
\* Most fields of a profile that may differ from BaseProfile at once.
MaxDeviations == 1

\* Python values a profile field can hold: a number, a string, None.
Num(n) == [t |-> "num", n |-> n]
Str(x) == [t |-> "str", s |-> x]
None == [t |-> "none"]

\* bool(v): None, 0 and '' are falsy.
Truthy(v) ==
    CASE v.t = "num" -> v.n # 0
      [] v.t = "str" -> v.s # ""
      [] OTHER -> FALSE

\* The strings float() parses, with their values; any other string is
\* rejected.
NumericStrings == [s \in {"5000", "3000", "0"} |->
                     CASE s = "5000" -> 5000 [] s = "3000" -> 3000 [] OTHER -> 0]

\* float(v): the number, the parsed string, or the exception raised.
Float(v) ==
    CASE v.t = "num" -> [n |-> v.n]
      [] v.t = "str" -> IF v.s \in DOMAIN NumericStrings
                          THEN [n |-> NumericStrings[v.s]]
                          ELSE [exc |-> "ValueError"]
      [] OTHER -> [exc |-> "TypeError"]

\* required_fields, in the order of the list.
RequiredFields ==
    <<"age_group", "income", "expenses", "risk_profile", "goal", "timeframe",
      "country">>

OptionalFields == {"current_assets", "current_liabilities"}

\* A profile with every required field filled and no optional field.
BaseProfile ==
    [age_group |-> Str("30s"), income |-> Num(5000), expenses |-> Num(3000),
     risk_profile |-> Str("Moderate"), goal |-> Str("house"),
     timeframe |-> Str("5 years"), country |-> Str("United States")]

\* What a field may hold instead of its base value ("absent": no such key).
FieldValues(f) ==
    CASE f \in {"income", "expenses"} ->
           {None, Num(0), Num(5000), Num(3000), Str(""), Str("5000"), Str("abc")}
      [] f \in OptionalFields ->
           {None, Num(0), Num(10000), Str("abc")}
      [] f = "risk_profile" ->
           {None, Str(""), Str("Aggressive"), Str("Moderate"),
            Str("Conservative"), Str("Balanced")}
      [] OTHER -> {None, Str(""), Num(0)}

AllFields == {RequiredFields[i] : i \in DOMAIN RequiredFields} \cup OptionalFields

\* The dict with key k removed / with key k set to v.
Without(d, k) == [x \in DOMAIN d \ {k} |-> d[x]]
With(d, k, v) == [x \in DOMAIN d \cup {k} |-> IF x = k THEN v ELSE d[x]]

RECURSIVE Deviate(_, _)
\* The profiles reached from those of ps by changing at most n fields.
Deviate(ps, n) ==
    IF n = 0 THEN ps
    ELSE Deviate(ps \cup { Without(p, f) : p \in ps, f \in AllFields }
                    \cup UNION { { With(p, f, v) : v \in FieldValues(f) } :
                                 p \in ps, f \in AllFields },
                 n - 1)

Profiles == Deviate({BaseProfile}, MaxDeviations)

\* dict.setdefault(k, v), as the dict it leaves behind.
setdefault(d, k, v) == IF k \in DOMAIN d THEN d ELSE With(d, k, v)

\* The index in required_fields of the first field the loop rejects ('not
\* profile_data.get(field)'), or 0 if it rejects none.
FirstMissing(d) ==
    LET bad == { i \in DOMAIN RequiredFields :
                   ~Truthy(Get(d, RequiredFields[i], None)) }
    IN IF bad = {} THEN 0 ELSE CHOOSE i \in bad : \A j \in bad : i <= j

\* The profile after 'Set defaults for optional fields'.
WithDefaults(d) ==
    setdefault(setdefault(d, "current_assets", Num(0)),
               "current_liabilities", Num(0))

\* 'Calculate derived metrics': the locals, or the exception of the first
\* float() that raises.
DerivedMetrics(d) ==
    LET mi == Float(Get(d, "income", Num(0)))
        me == Float(Get(d, "expenses", Num(0)))
        ca == Float(Get(d, "current_assets", Num(0)))
        cl == Float(Get(d, "current_liabilities", Num(0)))
    IN IF "exc" \in DOMAIN mi THEN mi
       ELSE IF "exc" \in DOMAIN me THEN me
       ELSE IF "exc" \in DOMAIN ca THEN ca
       ELSE IF "exc" \in DOMAIN cl THEN cl
       ELSE [monthly_income |-> mi.n, monthly_expenses |-> me.n,
             current_assets |-> ca.n, current_liabilities |-> cl.n,
             net_worth |-> ca.n - cl.n,
             monthly_surplus |-> mi.n - me.n,
             savings_rate |-> IF mi.n > 0
                                THEN [num |-> (mi.n - me.n) * 100, den |-> mi.n]
                                ELSE RatZero,
             country |-> Get(d, "country", Str("United States")),
             economic_status |-> "none"]

\* The status of the dict the outer 'except Exception' returns.
OuterErrorStatus(f) == IF f = "generate_investment_strategy_direct"
                         THEN "error" ELSE "system_error"

GsCalled(callee, outcome) == [callee |-> callee, outcome |-> outcome]

GsReturn(res) ==
    /\ gs_result' = res
    /\ gs_pc' = "returned"

\* A caller hands profile_data to generate_investment_strategy_direct.
generate_investment_strategy_direct(profile) ==
    /\ gs_pc = "idle"
    /\ gs_fn' = "generate_investment_strategy_direct"
    /\ profile_data' = profile
    /\ profile_before' = profile
    /\ gs_pc' = "validate"
    /\ UNCHANGED <<gs_locals, gs_calls, gs_result, taxVars, wfVars, ciVars, uiVars>>

\* A caller hands profile_data to generate_investment_strategy.
generate_investment_strategy(profile) ==
    /\ gs_pc = "idle"
    /\ gs_fn' = "generate_investment_strategy"
    /\ profile_data' = profile
    /\ profile_before' = profile
    /\ gs_pc' = "import"
    /\ UNCHANGED <<gs_locals, gs_calls, gs_result, taxVars, wfVars, ciVars, uiVars>>

\* 'from llama_index.llms.nebius import NebiusLLM' at the top of
\* generate_investment_strategy's try block.
ImportLLM ==
    /\ gs_pc = "import"
    /\ \E outcome \in {"returned", "raised"} :
          /\ gs_calls' = Append(gs_calls, GsCalled("import NebiusLLM", outcome))
          /\ IF outcome = "raised"
               THEN GsReturn([status |-> "system_error",
                              strategy |-> <<"System Error", "ImportError">>])
               ELSE gs_pc' = "validate" /\ UNCHANGED gs_result
    /\ UNCHANGED <<gs_fn, profile_data, profile_before, gs_locals, taxVars, wfVars, ciVars, uiVars>>

\* The required-field loop, the defaults and the derived metrics.
ValidateProfile ==
    /\ gs_pc = "validate"
    /\ LET missing == FirstMissing(profile_data)
           filled == WithDefaults(profile_data)
           metrics == DerivedMetrics(filled)
       IN IF missing # 0
            THEN /\ GsReturn([status |-> "validation_error",
                              strategy |-> <<"Missing Required Field",
                                             RequiredFields[missing]>>])
                 /\ UNCHANGED <<profile_data, gs_locals>>
            ELSE /\ profile_data' = filled
                 /\ IF "exc" \in DOMAIN metrics
                      THEN /\ GsReturn([status |-> OuterErrorStatus(gs_fn),
                                        strategy |-> <<"Failed", metrics.exc>>])
                           /\ UNCHANGED gs_locals
                      ELSE /\ gs_locals' = metrics
                           /\ gs_pc' = IF gs_fn = "generate_investment_strategy"
                                         THEN "country_info" ELSE "economic"
                           /\ UNCHANGED gs_result
    /\ UNCHANGED <<gs_fn, profile_before, gs_calls, taxVars, wfVars, ciVars, uiVars>>

\* 'country_info = await get_dynamic_country_info(country, profile_data)', or
\* the static fallback if it raises; neither writes to profile_data.
FetchCountryInfo ==
    /\ gs_pc = "country_info"
    /\ \E outcome \in {"returned", "raised"} :
          gs_calls' = Append(gs_calls, GsCalled("get_dynamic_country_info", outcome))
    /\ gs_pc' = "economic"
    /\ UNCHANGED <<gs_fn, profile_data, profile_before, gs_locals, gs_result,
                   taxVars, wfVars, ciVars, uiVars>>

\* get_comprehensive_economic_data(country) and the formatting of its answer:
\* 'success' with a growth rate, 'success' without one (the format raises and
\* is caught, economic_data stays), another status, or the call raises.
FetchEconomicData ==
    /\ gs_pc = "economic"
    /\ \E outcome \in {"success", "success_no_gdp", "unavailable", "raised"} :
          /\ gs_calls' = Append(gs_calls,
                                GsCalled("get_comprehensive_economic_data", outcome))
          /\ gs_locals' = [gs_locals EXCEPT !.economic_status =
                             IF outcome \in {"success", "success_no_gdp"}
                               THEN "success" ELSE "other"]
    /\ gs_pc' = "market"
    /\ UNCHANGED <<gs_fn, profile_data, profile_before, gs_result, taxVars, wfVars, ciVars, uiVars>>

\* The market-data block: every exception in it is caught.
FetchMarketData ==
    /\ gs_pc = "market"
    /\ \E outcome \in {"returned", "raised"} :
          gs_calls' = Append(gs_calls, GsCalled("get_market_indices", outcome))
    /\ gs_pc' = "llm"
    /\ UNCHANGED <<gs_fn, profile_data, profile_before, gs_locals, gs_result,
                   taxVars, wfVars, ciVars, uiVars>>

\* risk_equity and risk_bonds of the rule-based strategy; cash is a fixed 10.
risk_equity(d) ==
    IF Get(d, "risk_profile", None) = Str("Aggressive") THEN 70
    ELSE IF Get(d, "risk_profile", None) = Str("Moderate") THEN 60 ELSE 40

\* Variant: bonds do not follow the risk profile.
risk_bonds_flat(d) == 30

risk_bonds(d) ==
    IF Get(d, "risk_profile", None) = Str("Aggressive") THEN 20
    ELSE IF Get(d, "risk_profile", None) = Str("Moderate") THEN 30 ELSE 50

\* The dict of the final return, for a strategy text of the given kind.
SuccessResult(content) ==
    [status |-> "success", strategy |-> content,
     economic_data_included |-> gs_locals.economic_status = "success"]

\* The LLM block. In generate_investment_strategy_direct every failure in it
\* falls back to the rule-based strategy; in generate_investment_strategy the
\* construction of the LLM is outside the inner try (outer except) and a
\* failing acomplete returns 'llm_error'.
GenerateWithLLM ==
    /\ gs_pc = "llm"
    /\ \E outcome \in {"returned", "raised", "init_raised"} :
          /\ gs_calls' = Append(gs_calls, GsCalled("llm.acomplete", outcome))
          /\ IF outcome = "returned"
               THEN GsReturn(SuccessResult(<<"llm">>))
               ELSE IF gs_fn = "generate_investment_strategy_direct"
               THEN GsReturn(SuccessResult(
                        <<"rule_based", risk_equity(profile_data),
                          risk_bonds(profile_data), 10>>))
               ELSE IF outcome = "raised"
               THEN GsReturn([status |-> "llm_error",
                              strategy |-> <<"Strategy Generation Failed">>])
               ELSE GsReturn([status |-> "system_error",
                              strategy |-> <<"System Error", "NebiusLLM">>])
    /\ UNCHANGED <<gs_fn, profile_data, profile_before, gs_locals, taxVars, wfVars, ciVars, uiVars>>

InitStrategy ==
    /\ TablesLoaded
    /\ pc = "call"
    /\ fn = "none"
    /\ country = "USA"
    /\ income = 0
    /\ capital_gains = 0
    /\ result = Empty
    /\ memo = NoCall
    /\ WfIdle
    /\ GsIdle
    /\ CiIdle
    /\ UiIdle

NextStrategy ==
    \/ \E p \in Profiles : generate_investment_strategy_direct(p)
    \/ \E p \in Profiles : generate_investment_strategy(p)
    \/ ImportLLM
    \/ ValidateProfile
    \/ FetchCountryInfo
    \/ FetchEconomicData
    \/ FetchMarketData
    \/ GenerateWithLLM

SpecStrategy == InitStrategy /\ [][NextStrategy]_vars

\* ===================================================================
\* modal_app.py: get_dynamic_country_info, with tools/interest_rates.py
\* ===================================================================
\* INTEREST_RATES; a rate w.f percent is kept as [w, f] like an amount.
INTEREST_RATES ==
    ("United States" :> [interest_rate_percent |-> [w |-> 4, f |-> 50000],
                         as_of |-> "May 2025"])
    @@ ("Canada" :> [interest_rate_percent |-> [w |-> 2, f |-> 75000],
                     as_of |-> "April 2025"])
    @@ ("United Kingdom" :> [interest_rate_percent |-> [w |-> 4, f |-> 25000],
                             as_of |-> "May 2025"])
    @@ ("France" :> [interest_rate_percent |-> [w |-> 3, f |-> 50000],
                     as_of |-> "May 2025"])
    @@ ("Germany" :> [interest_rate_percent |-> [w |-> 3, f |-> 30000],
                      as_of |-> "May 2025"])
    @@ ("Italy" :> [interest_rate_percent |-> [w |-> 4, f |-> 0],
                    as_of |-> "May 2025"])
    @@ ("Japan" :> [interest_rate_percent |-> [w |-> 0, f |-> 50000],
                    as_of |-> "May 2025"])
    @@ ("India" :> [interest_rate_percent |-> [w |-> 6, f |-> 0],
                    as_of |-> "April 2025"])

get_interest_rate(c) ==
    LET rate_data == Get(INTEREST_RATES, c,
                         [interest_rate_percent |-> None, as_of |-> "N/A"])
    IN [interest_rate |-> rate_data.interest_rate_percent]

\* The choices of the UI's country dropdown.
UiCountries ==
    {"United States", "Canada", "United Kingdom", "Germany", "France", "Italy",
     "Japan", "India"}

\* 'Standardize country names for tax database'
country_mapping ==
    ("United States" :> "USA") @@ ("United Kingdom" :> "UK")
    @@ ("India" :> "India") @@ ("Canada" :> "Canada") @@ ("France" :> "France")
    @@ ("Germany" :> "Germany") @@ ("Italy" :> "Italy") @@ ("Japan" :> "Japan")

\* Variant: the name is handed on as the UI gave it.
tax_country_code_unmapped(c) == c

\* country_mapping.get(country, country)
tax_country_code(c) == Get(country_mapping, c, c)

\* 'if interest_data.get('interest_rate')': None and 0.0 are falsy.
RateKnown(rate) == rate # None /\ rate # Zero

\* The rate line of the answer.
CurrentInterestRate(c) ==
    LET interest_data == get_interest_rate(c)
        rate_info == Get(INTEREST_RATES, c, Empty)
    IN IF RateKnown(interest_data.interest_rate)
       THEN <<interest_data.interest_rate, "as of", Get(rate_info, "as_of", "N/A")>>
       ELSE <<"Contact local advisor for current rates">>

\* max(0, monthly_surplus * 12 * 0.1); exact for surpluses that are multiples
\* of 5, which CiProfiles keeps to.
EstimatedAnnualGains(monthly_surplus) == Max(0, (monthly_surplus * 12) \div 10)

\* 'Calculate tax liability if profile data is available': the call made and
\* whether its figures are shown; any exception in the block is swallowed.
TaxCalculation(code, profile) ==
    IF profile = Empty THEN [called |-> FALSE]
    ELSE LET inc == Float(Get(profile, "income", Num(0)))
             exp == Float(Get(profile, "expenses", Num(0)))
         IN IF "exc" \in DOMAIN inc \/ "exc" \in DOMAIN exp
            THEN [called |-> FALSE]
            ELSE LET annual == inc.n * 12
                     gains == EstimatedAnnualGains(inc.n - exp.n)
                     tax_calc == calculate_tax_liability(code, annual, gains)
                 IN [called |-> TRUE, income |-> annual, gains |-> gains,
                     tax_calc |-> tax_calc,
                     shown |-> "error" \notin DOMAIN tax_calc]

\* get_static_country_info_fallback(country), as the answer of last resort.
StaticFallback(c) == [fallback |-> c]

\* Countries and profiles the function is called with.
CiCountries == UiCountries \cup {"USA", "Atlantis"}

CiProfiles ==
    {Empty}
    \cup { [income |-> Num(i), expenses |-> Num(e)] :
             i \in {5000, 10000}, e \in {0, 2500, 6000} }
    \cup { [income |-> Str("abc"), expenses |-> Num(0)] }

get_dynamic_country_info(c, profile) ==
    /\ ci_pc = "idle"
    /\ ci_country' = c
    /\ ci_profile' = profile
    /\ ci_pc' = "import"
    /\ UNCHANGED <<ci_out, taxVars, wfVars, gsVars, uiVars>>

\* The imports at the top of the try block: 'from main import
\* economic_analyst, strategy_advisor', 'from tools.hardcoded_interest_rates
\* import ...', 'from tools.country_tax_db import ...'.  Whether they resolve
\* depends on the modules found on sys.path; a failure is caught by the
\* function's outer except, which answers with the static fallback.
ImportCountryTools ==
    /\ ci_pc = "import"
    /\ \E outcome \in {"imported", "ImportError"} :
          IF outcome = "imported"
          THEN ci_pc' = "lookup" /\ UNCHANGED ci_out
          ELSE ci_pc' = "returned" /\ ci_out' = StaticFallback(ci_country)
    /\ UNCHANGED <<ci_country, ci_profile, taxVars, wfVars, gsVars, uiVars>>

\* The lookups: country code, interest rate, tax information, strategies and
\* the estimated tax.
LookupCountryInfo ==
    /\ ci_pc = "lookup"
    /\ LET code == tax_country_code(ci_country) IN
       ci_out' = [country |-> ci_country,
                  tax_country_code |-> code,
                  interest_data |-> get_interest_rate(ci_country),
                  current_interest_rate |-> CurrentInterestRate(ci_country),
                  tax_financial_info |-> get_country_financial_info(code),
                  tax_strategies |-> get_tax_efficient_strategies(code),
                  tax_calculation |-> TaxCalculation(code, ci_profile),
                  economic_context |-> "pending"]
    /\ ci_pc' = "economic"
    /\ UNCHANGED <<ci_country, ci_profile, taxVars, wfVars, gsVars, uiVars>>

\* 'await economic_analyst.ainvoke(...)', its exception caught, and the
\* formatted answer returned.
AskEconomicAnalyst ==
    /\ ci_pc = "economic"
    /\ \E outcome \in {"returned", "raised"} :
          ci_out' = [ci_out EXCEPT !.economic_context =
                       IF outcome = "returned" THEN "analysis"
                       ELSE "Economic analysis temporarily unavailable"]
    /\ ci_pc' = "returned"
    /\ UNCHANGED <<ci_country, ci_profile, taxVars, wfVars, gsVars, uiVars>>

InitCountryInfo ==
    /\ TablesLoaded
    /\ pc = "call"
    /\ fn = "none"
    /\ country = "USA"
    /\ income = 0
    /\ capital_gains = 0
    /\ result = Empty
    /\ memo = NoCall
    /\ WfIdle
    /\ GsIdle
    /\ CiIdle
    /\ UiIdle

NextCountryInfo ==
    \/ \E c \in CiCountries, p \in CiProfiles : get_dynamic_country_info(c, p)
    \/ ImportCountryTools
    \/ LookupCountryInfo
    \/ AskEconomicAnalyst

SpecCountryInfo == InitCountryInfo /\ [][NextCountryInfo]_vars

\* ===================================================================
\* ui_gradio_up.py / app_claude.py: get_investment_strategy_async, and the
\* /strategy endpoint of modal_app.py that answers it
\* ===================================================================
\* The parameters of get_investment_strategy_async in each UI.
UiFields(app) ==
    IF app = "ui_gradio_up"
    THEN <<"age_group", "income", "expenses", "current_assets",
           "current_liabilities", "risk_profile", "goal", "timeframe", "country">>
    ELSE <<"age_group", "income", "expenses", "risk_profile", "goal",
           "timeframe", "country">>

\* The fields of 'if not all([...])', the same list in both UIs.
UiRequired ==
    <<"age_group", "income", "expenses", "risk_profile", "goal", "timeframe",
      "country">>

\* The values the form starts with.
UiDefaults ==
    [age_group |-> Str("30s"), income |-> Num(6000), expenses |-> Num(4000),
     current_assets |-> Num(25000), current_liabilities |-> Num(10000),
     risk_profile |-> Str("Moderate"), goal |-> Str("house"),
     timeframe |-> Str("5 years"), country |-> Str("United States")]

BaseArgs(app) ==
    [f \in {UiFields(app)[i] : i \in DOMAIN UiFields(app)} |-> UiDefaults[f]]

\* What the user may put in a field instead.
UiFieldValues(f) ==
    CASE f = "income" ->
           {None, Num(0), Num(-100), Num(4000), Str(""), Str("abc"),
            Str("$6,000"), Str("0")}
      [] f = "expenses" ->
           {None, Num(0), Num(-50), Num(6000), Num(7000), Str(""), Str("abc"),
            Str("0")}
      [] f \in OptionalFields ->
           {None, Num(0), Num(-1), Str(""), Str("abc")}
      [] f = "country" -> {None, Str(""), Str("<US> United States")}
      [] f = "risk_profile" -> {None, Str("Aggressive"), Str("Conservative")}
      [] OTHER -> {None, Str("")}

RECURSIVE DeviateArgs(_, _)
\* The argument lists reached from those of args by changing at most n fields.
DeviateArgs(args, n) ==
    IF n = 0 THEN args
    ELSE DeviateArgs(
           args \cup UNION { UNION { { With(a, f, v) : v \in UiFieldValues(f) } :
                                     f \in DOMAIN a } : a \in args },
           n - 1)

UiArgs(app) == DeviateArgs({BaseArgs(app)}, MaxDeviations)

\* The strings float() accepts once '$' and ',' are removed, with their values.
UiAmountStrings == [s \in {"$6,000", "6000", "0"} |->
                      CASE s = "0" -> 0 [] OTHER -> 6000]

\* float(str(x).replace('$', '').replace(',', '')) if x else 0
ParseAmount(v) ==
    IF ~Truthy(v) THEN [n |-> 0]
    ELSE IF v.t = "num" THEN [n |-> v.n]
    ELSE IF v.s \in DOMAIN UiAmountStrings THEN [n |-> UiAmountStrings[v.s]]
    ELSE [exc |-> "ValueError"]

\* country.split(' ', 1)[-1] if a US or Canada flag is in the name, else the
\* name; "<US>" stands for the flag emoji.
CleanCountry(v) ==
    IF v = Str("<US> United States") THEN Str("United States") ELSE v

\* The validation of get_investment_strategy_async: [message |-> the string
\* returned] or [payload |-> the JSON body to post].
UiValidate(app, a) ==
    LET inc == ParseAmount(a.income)
        exp == ParseAmount(a.expenses)
        assets == ParseAmount(Get(a, "current_assets", None))
        liabilities == ParseAmount(Get(a, "current_liabilities", None))
        full == app = "ui_gradio_up"
    IN IF \E i \in DOMAIN UiRequired : ~Truthy(a[UiRequired[i]])
         THEN [message |-> "Please fill in all fields"]
       ELSE IF \/ "exc" \in DOMAIN inc
               \/ "exc" \in DOMAIN exp
               \/ full /\ ("exc" \in DOMAIN assets \/ "exc" \in DOMAIN liabilities)
         THEN [message |-> "Please enter valid numbers"]
       ELSE IF inc.n <= 0 THEN [message |-> "Income must be greater than 0"]
       ELSE IF exp.n < 0 THEN [message |-> "Expenses cannot be negative"]
       ELSE IF full /\ assets.n < 0 THEN [message |-> "Assets cannot be negative"]
       ELSE IF full /\ liabilities.n < 0
         THEN [message |-> "Liabilities cannot be negative"]
       ELSE IF exp.n >= inc.n
         THEN [message |-> "Warning: expenses equal or exceed income"]
       ELSE [payload |->
              [profile |->
                 IF full
                 THEN [age_group |-> a.age_group, income |-> Num(inc.n),
                       expenses |-> Num(exp.n), current_assets |-> Num(assets.n),
                       current_liabilities |-> Num(liabilities.n),
                       risk_profile |-> a.risk_profile, goal |-> a.goal,
                       timeframe |-> a.timeframe,
                       country |-> CleanCountry(a.country)]
                 ELSE [age_group |-> a.age_group, income |-> Num(inc.n),
                       expenses |-> Num(exp.n),
                       risk_profile |-> a.risk_profile, goal |-> a.goal,
                       timeframe |-> a.timeframe, country |-> a.country]]]

\* The heading each UI puts before the strategy of a 200 response.
Heading(app, status) ==
    IF app = "ui_gradio_up"
    THEN CASE status = "success" -> "AI-Powered Analysis Complete"
           [] status = "validation_error" -> "Validation Error"
           [] status = "llm_error" -> "Rule-Based Fallback"
           [] OTHER -> "Generated using advanced algorithms"
    ELSE IF status = "basic" THEN "Rule-Based" ELSE "Powered by AI"

\* A user submits the form: the function validates and either returns a
\* message or posts the payload.
get_investment_strategy_async(app, a) ==
    /\ ui_pc = "idle"
    /\ ui_app' = app
    /\ ui_args' = a
    /\ LET v == UiValidate(app, a) IN
       IF "message" \in DOMAIN v
       THEN /\ ui_out' = [kind |-> "validation", text |-> v.message]
            /\ ui_pc' = "returned"
            /\ UNCHANGED ui_payload
       ELSE /\ ui_payload' = v.payload
            /\ ui_pc' = "sent"
            /\ UNCHANGED ui_out
    /\ UNCHANGED <<taxVars, wfVars, gsVars, ciVars>>

\* POST /strategy: the endpoint hands request.profile to
\* generate_investment_strategy_direct.
strategy_endpoint ==
    /\ ui_pc = "sent"
    /\ generate_investment_strategy_direct(ui_payload.profile)

\* The 200 response arrives: the heading is chosen by the status.
RenderResponse ==
    /\ ui_pc = "sent"
    /\ gs_pc = "returned"
    /\ ui_out' = [kind |-> "rendered",
                  heading |-> Heading(ui_app, Get(gs_result, "status", "unknown")),
                  status |-> Get(gs_result, "status", "unknown")]
    /\ ui_pc' = "returned"
    /\ UNCHANGED <<ui_app, ui_args, ui_payload, taxVars, wfVars, gsVars, ciVars>>

\* The request fails instead: a non-200 status, the client timeout, or a
\* connection error.
RequestFails ==
    /\ ui_pc = "sent"
    /\ \E text \in {"Service Error", "Request Timeout", "Connection Error"} :
          ui_out' = [kind |-> "failure", text |-> text]
    /\ ui_pc' = "returned"
    /\ UNCHANGED <<ui_app, ui_args, ui_payload, taxVars, wfVars, gsVars, ciVars>>

InitEndToEnd ==
    /\ TablesLoaded
    /\ pc = "call"
    /\ fn = "none"
    /\ country = "USA"
    /\ income = 0
    /\ capital_gains = 0
    /\ result = Empty
    /\ memo = NoCall
    /\ WfIdle
    /\ GsIdle
    /\ CiIdle
    /\ UiIdle

NextEndToEnd ==
    \/ \E app \in {"ui_gradio_up", "app_claude"} :
         \E a \in UiArgs(app) : get_investment_strategy_async(app, a)
    \/ strategy_endpoint
    \/ ValidateProfile
    \/ FetchEconomicData
    \/ FetchMarketData
    \/ GenerateWithLLM
    \/ RenderResponse
    \/ RequestFails

SpecEndToEnd == InitEndToEnd /\ [][NextEndToEnd]_vars

\* ===================================================================
\* Properties of calculate_tax_liability
\* ===================================================================
Min(a, b) == IF a <= b THEN a ELSE b

Supported == DOMAIN InitialTaxRules

ComputedKeys == {"income_tax", "capital_gains_tax", "total_tax", "effective_rate"}

\* The part of inc lying in bracket i: between brackets[i] and brackets[i+1],
\* the last bracket being open-ended.
RefPortion(brackets, i, inc) ==
    IF i < Len(brackets)
    THEN Max(0, Min(inc, brackets[i + 1]) - brackets[i])
    ELSE Max(0, inc - brackets[i])

\* The marginal-bracket reference: the sum over brackets i, from i on, of
\* rates[i] times the part of inc lying in bracket i.
RECURSIVE RefMarginalTax(_, _, _, _)
RefMarginalTax(brackets, rates, i, inc) ==
    IF i > Len(brackets) THEN Zero
    ELSE NumAdd(MulRate(RefPortion(brackets, i, inc), rates[i]),
                RefMarginalTax(brackets, rates, i + 1, inc))

\* ---- C1
BracketCountries == {"USA", "UK", "France", "Germany", "Italy", "Japan"}

\* C1: for every country declaring income_brackets and rates, and every
\* income >= 0, the income tax returned equals the marginal-bracket reference
\* over that country's brackets and rates.
C1_BracketTaxIsMarginal ==
    /\ BracketCountries =
         {c \in DOMAIN TAX_RULES :
            {"income_brackets", "rates"} \subseteq DOMAIN TAX_RULES[c]}
    /\ (Returned /\ country \in BracketCountries /\ income >= 0) =>
          result.income_tax =
             RefMarginalTax(TAX_RULES[country].income_brackets,
                            TAX_RULES[country].rates, 1, income)

\* A Japanese income above the last boundary, taxed in all seven brackets.
C1_Witness ==
    /\ Returned /\ country = "Japan" /\ income = 40000002
    /\ result.income_tax = [w |-> 13204000, f |-> 90000]

\* ---- C2
IndiaSlabBounds == <<0, 400000, 800000, 1200000, 1600000, 2000000, 2400000>>

IndiaSlabRates == <<0, 5000, 10000, 15000, 20000, 25000, 30000>>

\* C2: for India and every income >= 0, the income tax returned equals the
\* marginal-slab reference: nothing on the first 400,000, each slab's rate on
\* the part of the income inside that slab, 30% above 2,400,000.
C2_IndiaTaxIsMarginal ==
    (Returned /\ country = "India" /\ income >= 0) =>
        result.income_tax = RefMarginalTax(IndiaSlabBounds, IndiaSlabRates, 1, income)

\* ---- C3
\* C3: every supported country other than India has a non-empty list of
\* bracket boundaries and a list of rates of the same length, and these are
\* the two lists the calculator reads for that country's income tax.
C3_BracketListsRead ==
    (Returned /\ country \in Supported \ {"India"}) =>
        LET rules == TAX_RULES[country] IN
        /\ Len(ReadBrackets(rules)) > 0
        /\ Len(ReadBrackets(rules)) = Len(ReadRates(rules))
        /\ Boundaries(rules) = SeqRange(ReadBrackets(rules))

\* ---- C4
FlatCountryRate ==
    [France |-> 30000, Germany |-> 26375, Italy |-> 26000, Japan |-> 20315]

\* C4: for gains g > 0 the capital-gains tax has the shape declared for the
\* country: UK max(0, g - 6000) x 10%; Canada g x 0.5 x 21%; USA g x 20%;
\* France, Germany, Italy, Japan g x the flat individual rate.  For g = 0 it
\* is 0 for every supported country.
C4_GainsShapePerCountry ==
    (Returned /\ country \in Supported) =>
        /\ (capital_gains = 0) => result.capital_gains_tax = Zero
        /\ (capital_gains > 0 /\ country = "UK") =>
              result.capital_gains_tax = MulRate(Max(0, capital_gains - 6000), 10000)
        /\ (capital_gains > 0 /\ country = "Canada") =>
              result.capital_gains_tax = MulRate(capital_gains, 10500)
        /\ (capital_gains > 0 /\ country = "USA") =>
              result.capital_gains_tax = MulRate(capital_gains, 20000)
        /\ (capital_gains > 0 /\ country \in DOMAIN FlatCountryRate) =>
              result.capital_gains_tax = MulRate(capital_gains, FlatCountryRate[country])

\* UK gains one above the allowance: 10% of 1.
C4_Witness ==
    /\ Returned /\ country = "UK" /\ capital_gains = 6001
    /\ result.capital_gains_tax = [w |-> 0, f |-> 10000]

\* ---- C5
\* C5: for every supported country, income >= 0 and gains >= 0, total_tax is
\* income_tax + capital_gains_tax, and the result carries the country, income
\* and capital_gains of the call.
C5_TotalIsSum ==
    (Returned /\ country \in Supported /\ income >= 0 /\ capital_gains >= 0) =>
        /\ result.total_tax = NumAdd(result.income_tax, result.capital_gains_tax)
        /\ result.country = country
        /\ result.income = income
        /\ result.capital_gains = capital_gains

\* Both summands non-zero: USA, income 10477, gains 10001.
C5_Witness ==
    /\ Returned /\ country = "USA" /\ income = 10477 /\ capital_gains = 10001
    /\ result.income_tax = [w |-> 1047, f |-> 74000]
    /\ result.capital_gains_tax = [w |-> 2000, f |-> 20000]
    /\ result.total_tax = [w |-> 3047, f |-> 94000]

\* ---- C6
\* Equality of two quotients over the same denominator, or both zero.
RatEq(a, b) ==
    \/ a.den = b.den /\ a.num = b.num
    \/ a.num = Zero /\ b.num = Zero

\* C6 as stated: with income + gains > 0, effective_rate equals
\* total_tax / (income + gains).
C6_RateIsFraction ==
    (Returned /\ country \in Supported /\ income >= 0 /\ capital_gains >= 0
       /\ income + capital_gains > 0) =>
        RatEq(result.effective_rate,
              [num |-> result.total_tax, den |-> income + capital_gains])

\* C6 amended: with income + gains > 0, effective_rate equals
\* 100 x total_tax / (income + gains), the ratio as a percentage.
C6_RateIsPercentage ==
    (Returned /\ country \in Supported /\ income >= 0 /\ capital_gains >= 0
       /\ income + capital_gains > 0) =>
        RatEq(result.effective_rate,
              [num |-> NumMulInt(result.total_tax, 100),
               den |-> income + capital_gains])

\* USA, income 1, no gains: tax 0.10, effective rate 10 (percent).
C6_Witness ==
    /\ Returned /\ country = "USA" /\ income = 1 /\ capital_gains = 0
    /\ result.total_tax = [w |-> 0, f |-> 10000]
    /\ result.effective_rate = [num |-> [w |-> 10, f |-> 0], den |-> 1]

\* ---- C7
\* C7: for every supported country, when income + gains = 0 the result has
\* effective_rate = 0 and no 'error' key (no division error was caught).
C7_ZeroDenominator ==
    (Returned /\ country \in Supported /\ income + capital_gains = 0) =>
        /\ "error" \notin DOMAIN result
        /\ result.effective_rate.num = Zero

C7_Witness ==
    /\ Returned /\ country = "Germany" /\ income = 0 /\ capital_gains = 0
    /\ "error" \notin DOMAIN result
    /\ result.effective_rate = RatZero

\* ---- C8
\* C8: for a country key that is not a key of the ruleset, the call returns a
\* result that carries an error indication and none of the computed tax fields.
C8_UnsupportedCountry ==
    (Returned /\ country \notin DOMAIN TAX_RULES) =>
        /\ "error" \in DOMAIN result
        /\ DOMAIN result \cap ComputedKeys = {}

C8_Witness ==
    /\ Returned /\ country = "Mars" /\ income = 50000
    /\ result = [error |-> <<"Tax rules not available for", "Mars">>]

\* ---- C9
\* C9: for every supported country, a call with income < 0 or gains < 0 is
\* rejected: the result reports an error and no tax is computed from the
\* negative input.
C9_NegativeRejected ==
    (Returned /\ country \in Supported /\ (income < 0 \/ capital_gains < 0)) =>
        /\ "error" \in DOMAIN result
        /\ \A k \in {"income_tax", "capital_gains_tax", "total_tax"} :
              k \in DOMAIN result => result[k] = Zero

\* ---- C10
\* C10: for every supported country except India, fixed gains, and incomes
\* 0 <= I1 <= I2, the income tax returned for I1 is at most that for I2.
C10_MonotoneInIncome ==
    (Returned /\ country \in Supported \ {"India"} /\ income >= 0) =>
        \A i2 \in Incomes(country) :
            income <= i2 =>
                NumLeq(result.income_tax,
                       calculate_tax_liability(country, i2, capital_gains).income_tax)

\* USA at the boundary 10475 pays strictly less than at 10476.
C10_Witness ==
    /\ Returned /\ country = "USA" /\ income = 10475
    /\ 10476 \in Incomes(country)
    /\ NumLt(result.income_tax,
             calculate_tax_liability(country, 10476, capital_gains).income_tax)

\* ---- C11
\* C11: for every supported country, income = 0 and gains = 0 give
\* income_tax = 0, capital_gains_tax = 0 and total_tax = 0.
C11_ZeroInZeroOut ==
    (Returned /\ country \in Supported /\ income = 0 /\ capital_gains = 0) =>
        /\ result.income_tax = Zero
        /\ result.capital_gains_tax = Zero
        /\ result.total_tax = Zero

C11_Witness ==
    /\ Returned /\ country = "India" /\ income = 0 /\ capital_gains = 0
    /\ result.income_tax = Zero /\ result.total_tax = Zero

\* ---- C12
\* The marginal income-tax rates a country's rules declare, whichever key
\* holds them.
DeclaredRates(rules) ==
    SeqRange(Get(rules, "rates", Empty))
    \cup SeqRange(Get(rules, "federal_rates", Empty))
    \cup {sl.rate : sl \in SeqRange(Get(rules, "slabs", Empty))}

MaxOf(S) == CHOOSE x \in S : \A y \in S : y <= x

MaxMarginalRate(c) == MaxOf(DeclaredRates(TAX_RULES[c]))

\* C12 as stated: with income, gains >= 0 and income + gains > 0, the
\* effective rate lies between 0 and the highest declared marginal rate
\* (num/den <= r, stated as num <= den * r).
C12_RateWithinMarginal ==
    (Returned /\ country \in Supported /\ income >= 0 /\ capital_gains >= 0
       /\ income + capital_gains > 0) =>
        /\ NumLeq(Zero, result.effective_rate.num)
        /\ NumLeq(result.effective_rate.num,
                  MulRate(result.effective_rate.den, MaxMarginalRate(country)))

\* C12 amended: the effective rate, a percentage, lies between 0 and 100
\* times the highest declared marginal rate.
C12_RateWithinMarginalPercent ==
    (Returned /\ country \in Supported /\ income >= 0 /\ capital_gains >= 0
       /\ income + capital_gains > 0) =>
        /\ NumLeq(Zero, result.effective_rate.num)
        /\ NumLeq(result.effective_rate.num,
                  NumMulInt(MulRate(result.effective_rate.den,
                                    MaxMarginalRate(country)), 100))

\* Japan above its last boundary: the rate is positive and below 45 percent.
C12_Witness ==
    /\ Returned /\ country = "Japan" /\ income = 40000002 /\ capital_gains = 10001
    /\ MaxMarginalRate(country) = 45000
    /\ NumLt(Zero, result.effective_rate.num)
    /\ NumLt(result.effective_rate.num,
             NumMulInt(MulRate(result.effective_rate.den, 45000), 100))

\* ---- C13
\* The bracket boundaries and rates a country declares, under either key.
DeclaredBrackets(rules) ==
    Get(rules, "income_brackets", Get(rules, "federal_tax_brackets", Empty))

DeclaredBracketRates(rules) ==
    Get(rules, "rates", Get(rules, "federal_rates", Empty))

\* The sum of the brackets lying wholly below boundary number k, each taxed
\* in full at its own rate.
RECURSIVE FullBracketsBelow(_, _, _)
FullBracketsBelow(brackets, rates, k) ==
    IF k <= 1 THEN Zero
    ELSE NumAdd(FullBracketsBelow(brackets, rates, k - 1),
                MulRate(brackets[k] - brackets[k - 1], rates[k - 1]))

\* C13: for every bracket-based country and every bracket boundary B of it,
\* an income equal to B is taxed as the sum of the fully-taxed brackets below
\* B, nothing being taxed at the rate of the bracket that starts at B.
C13_BoundaryIncome ==
    (Returned /\ country \in Supported \ {"India"}) =>
        LET brackets == DeclaredBrackets(TAX_RULES[country])
            rates == DeclaredBracketRates(TAX_RULES[country])
        IN  \A k \in DOMAIN brackets :
                income = brackets[k] =>
                    result.income_tax = FullBracketsBelow(brackets, rates, k)

\* ---- C14
\* C14: for India, an income from 0 to 400,000 inclusive gives income_tax = 0
\* and an income above 400,000 gives income_tax > 0.
C14_IndiaThreshold ==
    (Returned /\ country = "India" /\ income >= 0) =>
        /\ income <= 400000 => result.income_tax = Zero
        /\ income > 400000 => NumLt(Zero, result.income_tax)

\* At the threshold nothing is due; one above it 0.05 is.
C14_Witness ==
    /\ Returned /\ country = "India" /\ income = 400001
    /\ result.income_tax = [w |-> 0, f |-> 5000]
    /\ calculate_tax_liability("India", 400000, capital_gains).income_tax = Zero

\* ---- C18
\* C18: for India and gains g > 0, the capital-gains tax is g times India's
\* short-term rate of 15%.
C18_IndiaShortTerm ==
    (Returned /\ country = "India" /\ capital_gains > 0) =>
        result.capital_gains_tax = MulRate(capital_gains, 15000)

\* ---- C15
\* C15: after any sequence of calls of the five functions the two tables are
\* as they were on import, and a call of calculate_tax_liability returns what
\* an earlier call with the same country, income and gains returned.
C15_StatelessDeterministic ==
    /\ TAX_RULES = InitialTaxRules
    /\ COUNTRY_FINANCIAL_INFO = InitialCountryFinancialInfo
    /\ (Returned /\ memo # NoCall /\ memo.country = country
          /\ memo.income = income /\ memo.capital_gains = capital_gains) =>
            result = memo.result

\* A kept call, calls of all five functions after it, the latest of them the
\* same call again.
C15_Witness ==
    /\ Returned /\ memo # NoCall
    /\ memo.country = "India" /\ country = "India"
    /\ memo.income = 50000 /\ income = 50000
    /\ memo.capital_gains = 10000 /\ capital_gains = 10000
    /\ {"get_tax_rules", "get_supported_countries", "get_country_financial_info",
        "get_tax_efficient_strategies", "calculate_tax_liability"}
          \subseteq memo.since
    /\ result = memo.result
    /\ result.capital_gains_tax = [w |-> 1250, f |-> 0]

\* ===================================================================
\* Properties of InvestmentWorkflow
\* ===================================================================
IsPrefix(s, t) == Len(s) <= Len(t) /\ \A i \in DOMAIN s : s[i] = t[i]

\* The agents called so far in the run, in the order of the calls.
AgentsCalled == [i \in DOMAIN wf_calls |-> wf_calls[i].agent]

\* Every call but the first was made after the call before it returned, and
\* with exactly what that call returned; the first was made with what the
\* caller passed in.
InputsChained ==
    \A i \in DOMAIN wf_calls :
        IF i = 1 THEN wf_calls[i].input = wf_input
        ELSE /\ wf_calls[i - 1].outcome = "returned"
             /\ wf_calls[i].input = wf_calls[i - 1].output

\* The run has produced a strategy: the StopEvent is out, or its result has
\* been returned (and is not the error dict of the except clause).
StrategyProduced ==
    \/ wf_event # Empty /\ wf_event.type = "StopEvent"
    \/ wf_result # Empty /\ wf_result.strategy[1] # "Error in workflow"

\* ---- C17
\* C17: in a run started by run_from_text the agents are called in the one
\* order input analyzer, demographic profiler, net-worth checker, literacy
\* detector, economic analyst, strategy advisor, each at most once, each after
\* the one before it returned and with exactly what that one returned; the
\* strategy is produced only once the strategy advisor has returned.
C17_TextRunIsLinear ==
    wf_entry = "run_from_text" =>
        /\ IsPrefix(AgentsCalled, AgentOrder)
        /\ InputsChained
        /\ StrategyProduced =>
              /\ AgentsCalled = AgentOrder
              /\ wf_calls[Len(wf_calls)].outcome = "returned"

C17_Witness ==
    /\ wf_entry = "run_from_text" /\ wf_pc = "returned"
    /\ AgentsCalled = AgentOrder
    /\ InputsChained
    /\ wf_calls[3].input = [by |-> "demographic_profiler", v |-> 2]
    /\ wf_calls[6].outcome = "returned"
    /\ wf_result.strategy[1] = "sections"

\* ---- C19
\* C19: a run started by run_from_profile starts at the demographic step with
\* the profile passed in: the input analyzer is never called, and the other
\* five agents are called once each in the order of run_from_text.
C19_ProfileRunSkipsAnalyzer ==
    wf_entry = "run_from_profile" =>
        /\ \A i \in DOMAIN wf_calls : wf_calls[i].agent # "input_analyzer"
        /\ IsPrefix(AgentsCalled, Tail(AgentOrder))
        /\ InputsChained
        /\ StrategyProduced => AgentsCalled = Tail(AgentOrder)

C19_Witness ==
    /\ wf_entry = "run_from_profile" /\ wf_pc = "returned"
    /\ AgentsCalled = Tail(AgentOrder)
    /\ wf_input = [by |-> "user", v |-> 1]
    /\ wf_calls[1] = Called("demographic_profiler", [by |-> "user", v |-> 1],
                            "returned", [by |-> "demographic_profiler", v |-> 2])
    /\ wf_calls[5].outcome = "returned"
    /\ wf_result.strategy[1] = "text"

\* ---- C20
\* C20: if an agent call raises, the run does not let the exception out: it
\* returns a dict whose 'strategy' is the 'Error in workflow' message; the
\* call that raised is the last call of the run (no later agent is called and
\* the step is not run again).
C20_RaiseEndsRun ==
    \A i \in DOMAIN wf_calls :
        wf_calls[i].outcome = "raised" =>
            /\ i = Len(wf_calls)
            /\ wf_pc \in {"raised", "returned"}
            /\ wf_pc = "raised" => ENABLED run_except
            /\ wf_pc = "returned" =>
                  wf_result = [strategy |->
                    <<"Error in workflow", <<"raised by", wf_calls[i].agent>>>>]

\* The net-worth checker raised in a run from text: three calls, error dict.
C20_Witness ==
    /\ wf_entry = "run_from_text" /\ wf_pc = "returned"
    /\ Len(wf_calls) = 3
    /\ wf_calls[3].agent = "net_worth_checker" /\ wf_calls[3].outcome = "raised"
    /\ wf_result = [strategy |->
                      <<"Error in workflow", <<"raised by", "net_worth_checker">>>>]

\* ===================================================================
\* Properties of the strategy generators
\* ===================================================================
\* ---- C16
\* C16: when generate_investment_strategy_direct or
\* generate_investment_strategy has returned, on whatever path, the profile
\* dict it was handed has the keys and values it had before the call.
C16_ProfileUnchanged ==
    gs_pc = "returned" => profile_data = profile_before


\* ===================================================================
\* Further properties of calculate_tax_liability
\* ===================================================================
Whole(n) == [w |-> n, f |-> 0]

\* ---- C28
\* C28: for every supported country, income >= 0 and gains >= 0:
\* 0 <= income_tax <= income, 0 <= capital_gains_tax <= gains and
\* 0 <= total_tax <= income + gains; income_tax is the same whatever the
\* gains, and capital_gains_tax the same whatever the income.
C28_TaxWithinBounds ==
    (Returned /\ country \in Supported /\ income >= 0 /\ capital_gains >= 0) =>
        /\ NumLeq(Zero, result.income_tax)
        /\ NumLeq(result.income_tax, Whole(income))
        /\ NumLeq(Zero, result.capital_gains_tax)
        /\ NumLeq(result.capital_gains_tax, Whole(capital_gains))
        /\ NumLeq(Zero, result.total_tax)
        /\ NumLeq(result.total_tax, Whole(income + capital_gains))
        /\ \A g2 \in Gains :
              calculate_tax_liability(country, income, g2).income_tax
                = result.income_tax
        /\ \A i2 \in Incomes(country) :
              calculate_tax_liability(country, i2, capital_gains).capital_gains_tax
                = result.capital_gains_tax

\* Germany just above its second bracket with gains just above 10,000: both
\* taxes are positive and strictly below their bases.
C28_Witness ==
    /\ Returned /\ country = "Germany" /\ income = 63470 /\ capital_gains = 10001
    /\ NumLt(Zero, result.income_tax) /\ NumLt(result.income_tax, Whole(income))
    /\ NumLt(Zero, result.capital_gains_tax)
    /\ NumLt(result.capital_gains_tax, Whole(capital_gains))
    /\ 0 \in Gains /\ 0 \in Incomes(country)


\* ===================================================================
\* Termination of InvestmentWorkflow runs
\* ===================================================================
\* The run returned the workflow-error dict of the except clause.
ErrorOutcome ==
    /\ wf_result # Empty
    /\ wf_result.strategy[1] = "Error in workflow"

\* generate_strategy produced a result: the strategy advisor returned and
\* format_strategy formatted its answer.
StrategyFormatted ==
    /\ wf_calls # << >>
    /\ LET last == wf_calls[Len(wf_calls)] IN
       /\ last.agent = "strategy_advisor"
       /\ last.outcome = "returned"
       /\ "md" \in DOMAIN FormattedStrategy(last.output)

\* The run returned {'strategy': <formatted strategy>} of generate_strategy.
StrategyOutcome ==
    /\ wf_result # Empty
    /\ wf_result.strategy[1] # "Error in workflow"
    /\ StrategyFormatted
    /\ wf_result = [strategy |->
                      FormattedStrategy(wf_calls[Len(wf_calls)].output).md]

\* The run has ended with exactly one of the two outcomes: the error dict
\* only when generate_strategy produced nothing, the strategy dict otherwise.
OneOutcome ==
    /\ wf_pc = "returned"
    /\ IF ErrorOutcome THEN ~StrategyFormatted ELSE StrategyOutcome

\* ---- C21
\* C21: with every agent call returning or raising, a run started by
\* run_from_text or run_from_profile eventually ends, and ends with exactly
\* one outcome: the strategy dict of generate_strategy or the workflow-error
\* dict, never both and never neither.
C21_RunEndsWithOneOutcome ==
    /\ (wf_pc = "running") ~> OneOutcome
    /\ [](wf_pc = "returned" => OneOutcome)

\* A run from a profile that ended with a formatted strategy after five calls.
C21_Witness ==
    /\ wf_entry = "run_from_profile"
    /\ Len(wf_calls) = 5
    /\ OneOutcome /\ StrategyOutcome /\ ~ErrorOutcome


\* ===================================================================
\* Further properties of the strategy generators
\* ===================================================================
\* The field is absent from the profile, or holds None or ''.
AbsentOrEmpty(d, f) ==
    \/ f \notin DOMAIN d
    \/ d[f].t = "none"
    \/ d[f].t = "str" /\ d[f].s = ""

\* The indexes in required_fields of the fields absent or empty in d.
MissingIn(d) == { i \in DOMAIN RequiredFields : AbsentOrEmpty(d, RequiredFields[i]) }

\* ---- C22
\* C22: when generate_investment_strategy_direct has returned: if a required
\* field was absent or empty, the status is 'validation_error', the message
\* names the first such field of the list, and no fetch or LLM call was made;
\* if all seven were present, the status is not 'validation_error'.
C22_ValidationFirst ==
    (gs_fn = "generate_investment_strategy_direct" /\ gs_pc = "returned") =>
        LET missing == MissingIn(profile_before) IN
        IF missing # {}
        THEN /\ gs_result.status = "validation_error"
             /\ gs_result.strategy =
                  <<"Missing Required Field",
                    RequiredFields[CHOOSE i \in missing : \A j \in missing : i <= j]>>
             /\ gs_calls = << >>
        ELSE gs_result.status # "validation_error"

\* ---- C25
\* C25: whenever generate_investment_strategy_direct returns its rule-based
\* strategy, equity + bonds + the fixed 10 of cash is exactly 100, whatever
\* the risk_profile; and equity for Aggressive > Moderate > Conservative.
C25_AllocationSumsTo100 ==
    (/\ gs_fn = "generate_investment_strategy_direct"
     /\ gs_pc = "returned"
     /\ gs_result.strategy[1] = "rule_based") =>
        /\ gs_result.strategy[2] + gs_result.strategy[3] + gs_result.strategy[4] = 100
        /\ gs_result.strategy[4] = 10
        /\ \A r \in FieldValues("risk_profile") :
              LET d == With(profile_data, "risk_profile", r) IN
              risk_equity(d) + risk_bonds(d) + 10 = 100
        /\ risk_equity(With(profile_data, "risk_profile", Str("Aggressive")))
             > risk_equity(With(profile_data, "risk_profile", Str("Moderate")))
        /\ risk_equity(With(profile_data, "risk_profile", Str("Moderate")))
             > risk_equity(With(profile_data, "risk_profile", Str("Conservative")))

\* The fallback for an Aggressive profile: 70 / 20 / 10.
C25_Witness ==
    /\ gs_fn = "generate_investment_strategy_direct"
    /\ gs_pc = "returned"
    /\ profile_before # Empty
    /\ Get(profile_before, "risk_profile", None) = Str("Aggressive")
    /\ gs_calls # << >>
    /\ gs_calls[Len(gs_calls)] = GsCalled("llm.acomplete", "raised")
    /\ gs_result.strategy = <<"rule_based", 70, 20, 10>>

\* ===================================================================
\* Properties of get_dynamic_country_info
\* ===================================================================
\* ---- C27
\* C27: for each of the eight countries the UI offers, the mapped name is a
\* key of TAX_RULES, COUNTRY_FINANCIAL_INFO and the tax-strategy table and
\* the UI name is a key of INTEREST_RATES with a rate; so once the lookups
\* are done the interest rate is not None and the tax calculation, if made,
\* is not the unsupported-country result.
C27_UiCountriesCovered ==
    /\ \A c \in UiCountries :
          /\ tax_country_code(c) \in DOMAIN TAX_RULES
          /\ tax_country_code(c) \in DOMAIN COUNTRY_FINANCIAL_INFO
          /\ tax_country_code(c) \in DOMAIN TaxStrategies
          /\ c \in DOMAIN INTEREST_RATES
          /\ INTEREST_RATES[c].interest_rate_percent # None
    /\ (ci_pc \in {"economic", "returned"} /\ ci_country \in UiCountries
        /\ "tax_country_code" \in DOMAIN ci_out) =>
          /\ ci_out.interest_data.interest_rate # None
          /\ ci_out.tax_calculation.called =>
               /\ ci_out.tax_calculation.tax_calc
                    # UnsupportedResult(ci_out.tax_country_code)
               /\ "error" \notin DOMAIN ci_out.tax_calculation.tax_calc

\* The United Kingdom, mapped to UK, with a tax estimate on 120,000 a year.
C27_Witness ==
    /\ ci_pc = "returned" /\ ci_country = "United Kingdom"
    /\ "tax_country_code" \in DOMAIN ci_out
    /\ ci_out.tax_country_code = "UK"
    /\ ci_out.interest_data.interest_rate = [w |-> 4, f |-> 25000]
    /\ ci_out.tax_calculation.called
    /\ ci_out.tax_calculation.income = 120000
    /\ ci_out.tax_calculation.gains = 9000
    /\ NumLt(Zero, ci_out.tax_calculation.tax_calc.income_tax)


\* ===================================================================
\* Properties of the UI and of the round trip to /strategy
\* ===================================================================
\* The field was left empty: None or ''.
IsBlank(v) == v = None \/ v = Str("")

\* The field holds text that is not a number.
NotANumber(v) == v.t = "str" /\ v.s # "" /\ v.s \notin DOMAIN UiAmountStrings

\* The number a field holds (0 for a field left empty).
AmountOf(v) ==
    IF v.t = "num" THEN v.n
    ELSE IF v.t = "str" /\ v.s \in DOMAIN UiAmountStrings THEN UiAmountStrings[v.s]
    ELSE 0

\* The first condition of the validation order that holds for the arguments,
\* as the message it must give, or "send" if none holds.
ExpectedOutcome(a) ==
    LET assets == Get(a, "current_assets", None)
        liabilities == Get(a, "current_liabilities", None)
    IN IF \E i \in DOMAIN UiRequired : IsBlank(a[UiRequired[i]])
         THEN "Please fill in all fields"
       ELSE IF \E v \in {a.income, a.expenses, assets, liabilities} : NotANumber(v)
         THEN "Please enter valid numbers"
       ELSE IF AmountOf(a.income) <= 0 THEN "Income must be greater than 0"
       ELSE IF AmountOf(a.expenses) < 0 THEN "Expenses cannot be negative"
       ELSE IF AmountOf(assets) < 0 THEN "Assets cannot be negative"
       ELSE IF AmountOf(liabilities) < 0 THEN "Liabilities cannot be negative"
       ELSE IF AmountOf(a.expenses) >= AmountOf(a.income)
         THEN "Warning: expenses equal or exceed income"
       ELSE "send"

\* ---- C23
\* C23: once get_investment_strategy_async has validated its arguments, the
\* message returned is that of the first condition that holds, in the order
\* empty field, non-numeric amount, income <= 0, expenses < 0, assets < 0,
\* liabilities < 0, expenses >= income, and then no request was sent; a
\* request is sent exactly when none of the conditions holds.
C23_ValidationOrder ==
    ui_pc # "idle" =>
        LET expected == ExpectedOutcome(ui_args) IN
        IF expected = "send"
        THEN ui_payload # Empty
        ELSE /\ ui_payload = Empty
             /\ gs_pc = "idle"
             /\ ui_out = [kind |-> "validation", text |-> expected]

\* ---- C24
\* C24: with every text field filled, income > 0 and expenses = 0, the UI of
\* ui_gradio_up.py sends the request, and the backend's required-field check
\* does not report 'expenses' as missing.
C24_ZeroExpensesPass ==
    (/\ ui_app = "ui_gradio_up"
     /\ ui_pc # "idle"
     /\ \A f \in {"age_group", "risk_profile", "goal", "timeframe", "country"} :
           ui_args[f].t = "str" /\ ui_args[f].s # ""
     /\ ~NotANumber(ui_args.income) /\ AmountOf(ui_args.income) > 0
     /\ ui_args.expenses \in {Num(0), Str("0")}
     /\ ui_args.current_assets.t = "num" /\ ui_args.current_assets.n >= 0
     /\ ui_args.current_liabilities.t = "num" /\ ui_args.current_liabilities.n >= 0) =>
        /\ ui_payload # Empty
        /\ gs_pc = "returned" =>
             ~(/\ gs_result.status = "validation_error"
               /\ gs_result.strategy[2] = "expenses")

\* ---- C26
\* C26: when the response rendered by the UI carries the rule-based fallback,
\* its heading is the rule-based one; the AI heading is shown only for a
\* strategy the LLM produced.
C26_FallbackHeading ==
    (ui_pc = "returned" /\ ui_out.kind = "rendered") =>
        /\ gs_result.strategy[1] = "rule_based" =>
             ui_out.heading \in {"Rule-Based Fallback", "Rule-Based"}
        /\ ui_out.heading \in {"AI-Powered Analysis Complete", "Powered by AI"} =>
             gs_result.strategy[1] = "llm"

====
